---- MODULE Spec2Model ----
(***************************************************************************)
(* A model of electron_tasje: config resolution (config.rs, app.rs), the   *)
(* might-be-single deserializer (config.rs), the file Walker (walker.rs),  *)
(* the asar / extra packer and its pipeline (pack.rs), the icon generator  *)
(* (icons.rs), the desktop entry (desktop.rs), the patched manifest and    *)
(* the scripted config (app.rs), the template expander (utils.rs).         *)
(*                                                                         *)
(* Strings whose characters matter (package names, executable names) are   *)
(* sequences of one-character strings.  Paths are sequences of components; *)
(* an absolute path starts with the root component "/".                    *)
(***************************************************************************)
EXTENDS Naturals, Integers, Sequences, FiniteSets, TLC

VARIABLES
    app,        \* App {package, config}                     (app.rs:36-41)
    ret,        \* the last accessor call and what it returned
    fname,      \* the string argument of filesafe_package_name / fill_variable_template
    fresult,    \* its result
    field,      \* the struct field being deserialized       (config.rs)
    doc,        \* the document value found for it (or Missing)
    parsed,     \* the deserializer's result
    root,       \* App.root / Walker.root                    (walker.rs:12)
    copydefs,   \* the platform-resolved CopyDef list handed to the packer
    additional, \* PackingProcess.additional_files / additional_extra_resources
    unpack,     \* the composed asar_unpack list
    pc,         \* where the packing step stands
    target,     \* the directory the packing step writes into
    walker,     \* the Walker's fields                       (walker.rs:11-19)
    yielded,    \* every triple the Walker has returned, in order
    asar,       \* the entries written by AsarWriter::write_file, in order
    copied,     \* the destinations written by fs::copy, in order
    builder,    \* PackingProcessBuilder's overrides               (pack.rs:38-48)
    process,    \* the PackingProcess built from it               (pack.rs:128-137);
                \* for fill_variable_template, the host architecture and env::var
    disk,       \* the files read and the output directory written
    log         \* what proceed / generate has written or done, in order

cfgVars == <<app, ret>>
fsVars == <<fname, fresult>>
deVars == <<field, doc, parsed>>
wkVars == <<root, copydefs, additional, unpack, pc, target, walker, yielded, asar, copied>>
ppVars == <<builder, process, disk, log>>
vars == <<app, ret, fname, fresult, field, doc, parsed, root, copydefs, additional, unpack, pc, target, walker, yielded, asar, copied, builder, process, disk, log>>

(***************************************************************************)
(* Bounds of the model.                                                    *)
(***************************************************************************)
MaxListKeys == 2
MaxCommonKeys == 2
MaxNameLen == 3
MaxDocLen == 2
MaxDefs == 2

(***************************************************************************)
(* Option and Result.                                                      *)
(***************************************************************************)
None == [some |-> FALSE]
Some(v) == [some |-> TRUE, v |-> v]
Ok(v) == [ok |-> TRUE, v |-> v]
Err(e) == [ok |-> FALSE, err |-> e]

\* Option::or
OptOr(a, b) == IF a.some THEN a ELSE b

\* Option::unwrap_or
UnwrapOr(a, d) == IF a.some THEN a.v ELSE d

(***************************************************************************)
(* environment.rs: Platform                                                *)
(***************************************************************************)
Platform == {"Linux", "Windows", "Darwin"}

(***************************************************************************)
(* config.rs: the config model.                                            *)
(***************************************************************************)
CommonProps == {"description", "executable_name", "product_name", "desktop_name"}

ListFields == {"files", "asar_unpack", "extra_files", "extra_resources", "protocols", "file_associations", "category"}

\* #[derive(Default)] CommonOverridableProperties: every field None
DefaultCommon == [p \in CommonProps |-> None]

\* #[derive(Default)] EBuilderBaseConfig: every list empty, every option None
DefaultBaseConfig ==
    [f \in ListFields |-> <<>>]
    @@ [common |-> DefaultCommon, directories |-> [output |-> None], icon |-> None,
        extra_metadata |-> None, desktop |-> None]

\* EBuilderConfig with no key set: #[serde(default)] linux, mac, win
DefaultConfig == [base |-> DefaultBaseConfig, linux |-> DefaultBaseConfig, mac |-> DefaultBaseConfig, win |-> DefaultBaseConfig]

Sections == {"base", "linux", "mac", "win"}

\* A wrong section table: Darwin reads the win section.
current_platform_swapped(config, platform) ==
    CASE platform = "Windows" -> config.win
      [] platform = "Linux" -> config.linux
      [] platform = "Darwin" -> config.win

current_platform(config, platform) ==
    CASE platform = "Windows" -> config.win
      [] platform = "Linux" -> config.linux
      [] platform = "Darwin" -> config.mac

\* A wrong accessor: the platform list followed by the base list.
files_concat(config, platform) ==
    current_platform(config, platform).files \o config.base.files

files(config, platform) ==
    LET platform_files == current_platform(config, platform).files
    IN  IF platform_files # <<>> THEN platform_files ELSE config.base.files

asar_unpack(config, platform) ==
    LET platform_asar == current_platform(config, platform).asar_unpack
    IN  IF platform_asar # <<>> THEN platform_asar ELSE config.base.asar_unpack

extra_files(config, platform) ==
    LET platform_extra == current_platform(config, platform).extra_files
    IN  IF platform_extra # <<>> THEN platform_extra ELSE config.base.extra_files

extra_resources(config, platform) ==
    LET platform_extra == current_platform(config, platform).extra_resources
    IN  IF platform_extra # <<>> THEN platform_extra ELSE config.base.extra_resources

protocol_associations(config, platform) ==
    LET platform_protocols == current_platform(config, platform).protocols
    IN  IF platform_protocols # <<>> THEN platform_protocols ELSE config.base.protocols

file_associations(config, platform) ==
    LET platform_assocs == current_platform(config, platform).file_associations
    IN  IF platform_assocs # <<>> THEN platform_assocs ELSE config.base.file_associations

\* returns the platform section's category and nothing else
desktop_categories(config, platform) == current_platform(config, platform).category

extra_metadata(config, platform) ==
    OptOr(current_platform(config, platform).extra_metadata, config.base.extra_metadata)

\* the user's desktop map of the platform section, else of the base
desktop_properties(config, platform) ==
    OptOr(current_platform(config, platform).desktop, config.base.desktop)

output_dir(config, platform) ==
    OptOr(current_platform(config, platform).directories.output, config.base.directories.output)

\* the icon paths that are set, in the order they are handed to the
\* generator; mac and win have a default location
icon_locations(config) ==
    LET all == << config.linux.icon,
                  OptOr(config.mac.icon, Some(<<"build", "icon.icns">>)),
                  OptOr(config.win.icon, Some(<<"build", "icon.ico">>)),
                  config.base.icon >>
        set == SelectSeq(all, LAMBDA o : o.some)
    IN  [i \in 1..Len(set) |-> set[i].v]

(***************************************************************************)
(* utils.rs (the revision app.rs imports): filesafe_package_name.          *)
(* Replaces '@' by nothing and '/' by '-', then requires the result to     *)
(* match ^[A-Za-z0-9_-]+$.                                                 *)
(***************************************************************************)
Lower == {"a", "b", "c", "d", "e", "f", "g", "h", "i", "j", "k", "l", "m", "n", "o", "p", "q", "r", "s", "t", "u", "v", "w", "x", "y", "z"}

Upper == {"A", "B", "C", "D", "E", "F", "G", "H", "I", "J", "K", "L", "M", "N", "O", "P", "Q", "R", "S", "T", "U", "V", "W", "X", "Y", "Z"}

Digit == {"0", "1", "2", "3", "4", "5", "6", "7", "8", "9"}

\* the character class [A-Za-z0-9_-]
FilesafeClass == Lower \cup Upper \cup Digit \cup {"_", "-"}

\* str::replace(from, to) for a one-character pattern; to is a string
RECURSIVE str_replace(_, _, _)
str_replace(s, from, to) ==
    IF s = <<>> THEN <<>>
    ELSE (IF Head(s) = from THEN to ELSE <<Head(s)>>) \o str_replace(Tail(s), from, to)

\* A wrong regex: ^[A-Za-z0-9_-]*$ accepts the empty string.
filesafe_regex_star(s) == \A i \in 1..Len(s) : s[i] \in FilesafeClass

\* Regex ^[A-Za-z0-9_-]+$
filesafe_regex(s) == Len(s) >= 1 /\ \A i \in 1..Len(s) : s[i] \in FilesafeClass

filesafe_package_name(name) ==
    LET new_name == str_replace(str_replace(name, "@", <<>>), "/", <<"-">>)
    IN  IF filesafe_regex(new_name) THEN Ok(new_name) ELSE Err("InvalidPackageName")

(***************************************************************************)
(* app.rs: the resolution chain of the common fields.                      *)
(***************************************************************************)
\* A wrong chain: the manifest is consulted before the base config.
common_property_manifest_first(a, platform, prop) ==
    OptOr(OptOr(current_platform(a.config, platform).common[prop],
                a.package.manifest.common[prop]),
          a.config.base.common[prop])

\* macro common_property!
common_property(a, platform, prop) ==
    OptOr(OptOr(current_platform(a.config, platform).common[prop],
                a.config.base.common[prop]),
          a.package.manifest.common[prop])

description(a, platform) == common_property(a, platform, "description")

executable_name(a, platform) ==
    filesafe_package_name(
        UnwrapOr(common_property(a, platform, "executable_name"), a.package.manifest.name))

product_name(a, platform) ==
    UnwrapOr(common_property(a, platform, "product_name"), a.package.manifest.name)

DotDesktop == <<".", "d", "e", "s", "k", "t", "o", "p">>

desktop_name(a, platform) ==
    LET configured == common_property(a, platform, "desktop_name")
    IN  IF configured.some THEN Ok(configured.v)
        ELSE LET safe == filesafe_package_name(a.package.manifest.name)
             IN  IF safe.ok THEN Ok(safe.v \o DotDesktop) ELSE safe

(***************************************************************************)
(* Idle values: a specification about one part of the program holds the    *)
(* variables of the other parts at these.                                  *)
(***************************************************************************)
NoCall == [op |-> "none"]

DefaultPackage == [manifest |-> [name |-> <<"a">>, common |-> DefaultCommon]]

DefaultApp == [package |-> DefaultPackage, config |-> DefaultConfig]

IdleCfg == app = DefaultApp /\ ret = NoCall

IdleFs == fname = <<>> /\ fresult = NoCall

IdleDe == field = "none" /\ doc = [t |-> "none"] /\ parsed = NoCall

IdleWk ==
    /\ root = <<>>
    /\ copydefs = <<>>
    /\ additional = <<>>
    /\ unpack = <<>>
    /\ pc = "idle"
    /\ target = <<>>
    /\ walker = [state |-> "none"]
    /\ yielded = <<>>
    /\ asar = <<>>
    /\ copied = <<>>

IdlePp == builder = NoCall /\ process = NoCall /\ disk = {} /\ log = <<>>

(***************************************************************************)
(* SpecConfig: a config whose document sets at most MaxListKeys list keys, *)
(* and the list accessors of EBuilderConfig called on it.                  *)
(***************************************************************************)
\* values a list key may hold (elements are opaque)
ListPool == {<<"x">>, <<"y", "z">>}

RECURSIVE ListConfigs(_)
ListConfigs(n) ==
    IF n = 0 THEN {DefaultConfig}
    ELSE LET prev == ListConfigs(n - 1)
         IN  prev \cup {[c EXCEPT ![s][f] = v] : c \in prev, s \in Sections, f \in ListFields, v \in ListPool}

InitConfig ==
    /\ app \in {[package |-> DefaultPackage, config |-> c] : c \in ListConfigs(MaxListKeys)}
    /\ ret = NoCall
    /\ IdleFs /\ IdleDe /\ IdleWk /\ IdlePp

Returned(op, platform, value) == [op |-> op, platform |-> platform, value |-> value]

call_files ==
    /\ ret = NoCall
    /\ \E P \in Platform : ret' = Returned("files", P, files(app.config, P))
    /\ UNCHANGED <<app, fsVars, deVars, wkVars, ppVars>>

call_asar_unpack ==
    /\ ret = NoCall
    /\ \E P \in Platform : ret' = Returned("asar_unpack", P, asar_unpack(app.config, P))
    /\ UNCHANGED <<app, fsVars, deVars, wkVars, ppVars>>

call_extra_files ==
    /\ ret = NoCall
    /\ \E P \in Platform : ret' = Returned("extra_files", P, extra_files(app.config, P))
    /\ UNCHANGED <<app, fsVars, deVars, wkVars, ppVars>>

call_extra_resources ==
    /\ ret = NoCall
    /\ \E P \in Platform : ret' = Returned("extra_resources", P, extra_resources(app.config, P))
    /\ UNCHANGED <<app, fsVars, deVars, wkVars, ppVars>>

call_protocol_associations ==
    /\ ret = NoCall
    /\ \E P \in Platform : ret' = Returned("protocols", P, protocol_associations(app.config, P))
    /\ UNCHANGED <<app, fsVars, deVars, wkVars, ppVars>>

call_file_associations ==
    /\ ret = NoCall
    /\ \E P \in Platform : ret' = Returned("file_associations", P, file_associations(app.config, P))
    /\ UNCHANGED <<app, fsVars, deVars, wkVars, ppVars>>

call_desktop_categories ==
    /\ ret = NoCall
    /\ \E P \in Platform : ret' = Returned("category", P, desktop_categories(app.config, P))
    /\ UNCHANGED <<app, fsVars, deVars, wkVars, ppVars>>

NextConfig ==
    \/ call_files
    \/ call_asar_unpack
    \/ call_extra_files
    \/ call_extra_resources
    \/ call_protocol_associations
    \/ call_file_associations
    \/ call_desktop_categories

SpecConfig == InitConfig /\ [][NextConfig]_vars

\* The section of the config document that belongs to a platform.
SectionOf(platform) ==
    CASE platform = "Linux" -> "linux"
      [] platform = "Darwin" -> "mac"
      [] platform = "Windows" -> "win"

\* What the layered rule prescribes for the list key ret.op on ret.platform.
LayeredValue ==
    LET platform_list == app.config[SectionOf(ret.platform)][ret.op]
    IN  IF Len(platform_list) > 0 THEN platform_list ELSE app.config.base[ret.op]

\* C1: for every platform and config, files, asar_unpack, extra_files,
\* extra_resources, protocol_associations and file_associations return exactly
\* the platform section's list when it is non-empty and exactly the base list
\* otherwise, never a concatenation of the two.
C1_ListAccessorsLayered ==
    ret.op \in {"files", "asar_unpack", "extra_files", "extra_resources", "protocols", "file_associations"}
        => ret.value = LayeredValue

\* C1 witness: files() was called where both the platform list and the base
\* list are set, to different values.
C1_Witness ==
    /\ ret.op = "files"
    /\ app.config[SectionOf(ret.platform)].files # <<>>
    /\ app.config.base.files # <<>>
    /\ app.config.base.files # app.config[SectionOf(ret.platform)].files

\* C2: desktop_categories(P) returns the platform section's category list if
\* it is non-empty and the base config's category list otherwise.
C2_CategoriesLayered ==
    ret.op = "category" => ret.value = LayeredValue

(***************************************************************************)
(* SpecApp: an App whose documents set at most MaxCommonKeys of the common *)
(* keys (in the platform sections, the base config or the manifest), and   *)
(* the accessors of App called on it.                                      *)
(***************************************************************************)
\* values a common key may hold: a filesafe one, and one that is not
StrPool == {<<"b">>, <<"@", "c">>}

\* package names: filesafe, made filesafe by the replacements, not filesafe
NamePool == {<<"a">>, <<"@", "s", "/", "a">>, <<"a", "!">>}

RECURSIVE CommonApps(_)
CommonApps(n) ==
    IF n = 0 THEN {[DefaultApp EXCEPT !.package.manifest.name = nm] : nm \in NamePool}
    ELSE LET prev == CommonApps(n - 1)
         IN  prev
             \cup {[a EXCEPT !.config[s].common[p] = Some(v)] : a \in prev, s \in Sections, p \in CommonProps, v \in StrPool}
             \cup {[a EXCEPT !.package.manifest.common[p] = Some(v)] : a \in prev, p \in CommonProps, v \in StrPool}

InitApp ==
    /\ app \in CommonApps(MaxCommonKeys)
    /\ ret = NoCall
    /\ IdleFs /\ IdleDe /\ IdleWk /\ IdlePp

call_description ==
    /\ ret = NoCall
    /\ \E P \in Platform : ret' = Returned("description", P, description(app, P))
    /\ UNCHANGED <<app, fsVars, deVars, wkVars, ppVars>>

call_executable_name ==
    /\ ret = NoCall
    /\ \E P \in Platform : ret' = Returned("executable_name", P, executable_name(app, P))
    /\ UNCHANGED <<app, fsVars, deVars, wkVars, ppVars>>

call_product_name ==
    /\ ret = NoCall
    /\ \E P \in Platform : ret' = Returned("product_name", P, product_name(app, P))
    /\ UNCHANGED <<app, fsVars, deVars, wkVars, ppVars>>

call_desktop_name ==
    /\ ret = NoCall
    /\ \E P \in Platform : ret' = Returned("desktop_name", P, desktop_name(app, P))
    /\ UNCHANGED <<app, fsVars, deVars, wkVars, ppVars>>

NextApp ==
    \/ call_description
    \/ call_executable_name
    \/ call_product_name
    \/ call_desktop_name

SpecApp == InitApp /\ [][NextApp]_vars

\* The places a common key is looked up, highest priority first.
ChainOf(prop, platform) ==
    <<app.config[SectionOf(platform)].common[prop],
      app.config.base.common[prop],
      app.package.manifest.common[prop]>>

\* The first non-absent entry of a chain, or None when all are absent.
FirstPresent(chain) ==
    IF \E i \in 1..Len(chain) : chain[i].some
    THEN chain[CHOOSE i \in 1..Len(chain) : chain[i].some /\ \A j \in 1..(i - 1) : ~chain[j].some]
    ELSE None

\* Whether a string is made of filesafe characters once '@' is dropped and
\* '/' is read as '-', and is not empty then.
IsFilesafeInput(s) ==
    /\ \A i \in 1..Len(s) : s[i] \in FilesafeClass \cup {"@", "/"}
    /\ \E i \in 1..Len(s) : s[i] # "@"

\* The string with every '@' removed and every '/' replaced by '-'.
Replaced(s) ==
    LET kept == SelectSeq(s, LAMBDA c : c # "@")
    IN  [i \in 1..Len(kept) |-> IF kept[i] = "/" THEN "-" ELSE kept[i]]

\* C3: description, product_name and desktop_name are the first non-absent
\* value in the order platform section, base config, package manifest; with
\* the whole chain absent, description is absent, product_name is
\* package.name and desktop_name is filesafe(package.name) followed by
\* ".desktop", failing if package.name is not filesafe.
C3_CommonChain ==
    LET first == FirstPresent(ChainOf(ret.op, ret.platform))
        name == app.package.manifest.name
    IN  /\ ret.op = "description" => ret.value = first
        /\ ret.op = "product_name" => ret.value = (IF first.some THEN first.v ELSE name)
        /\ ret.op = "desktop_name" =>
              IF first.some THEN ret.value = Ok(first.v)
              ELSE IF IsFilesafeInput(name) THEN ret.value = Ok(Replaced(name) \o DotDesktop)
              ELSE ~ret.value.ok

\* C3 witness: desktop_name was called where the platform section leaves it
\* absent and the base config and the manifest both set it, differently.
C3_Witness ==
    /\ ret.op = "desktop_name"
    /\ ~app.config[SectionOf(ret.platform)].common.desktop_name.some
    /\ app.config.base.common.desktop_name.some
    /\ app.package.manifest.common.desktop_name.some
    /\ app.config.base.common.desktop_name # app.package.manifest.common.desktop_name

\* C4: executable_name(P) is the first non-absent executableName of the chain
\* platform, base, manifest, returned as configured; the filesafe
\* transformation and its failure apply only when the whole chain is absent
\* and package.name is used.
C4_ExecutableNameAsConfigured ==
    ret.op = "executable_name" =>
        LET first == FirstPresent(ChainOf("executable_name", ret.platform))
        IN  IF first.some THEN ret.value = Ok(first.v)
            ELSE ret.value = filesafe_package_name(app.package.manifest.name)

(***************************************************************************)
(* SpecFilesafe: filesafe_package_name applied to every string of at most  *)
(* MaxNameLen characters over NameAlphabet.                                *)
(***************************************************************************)
\* a letter of each case, a digit, both extra class members, both replaced
\* characters and three characters outside the class
NameAlphabet == {"a", "Z", "7", "_", "-", "@", "/", " ", "!", "."}

RECURSIVE Strings(_)
Strings(n) ==
    IF n = 0 THEN {<<>>}
    ELSE LET shorter == Strings(n - 1)
         IN  shorter \cup {Append(s, c) : s \in shorter, c \in NameAlphabet}

InitFilesafe ==
    /\ fname \in Strings(MaxNameLen)
    /\ fresult = NoCall
    /\ IdleCfg /\ IdleDe /\ IdleWk /\ IdlePp

call_filesafe_package_name ==
    /\ fresult = NoCall
    /\ fresult' = [op |-> "filesafe_package_name", value |-> filesafe_package_name(fname)]
    /\ UNCHANGED <<fname, cfgVars, deVars, wkVars, ppVars>>

NextFilesafe == call_filesafe_package_name

SpecFilesafe == InitFilesafe /\ [][NextFilesafe]_vars

\* C5: for every input, filesafe_package_name either fails or returns the
\* input with every '@' removed and every '/' replaced by '-', and on success
\* the result is non-empty and made of [A-Za-z0-9_-] only; any character
\* other than those and '@' and '/' in the input makes it fail.
C5_FilesafeResult ==
    fresult.op = "filesafe_package_name" =>
        LET r == fresult.value
        IN  /\ r.ok => /\ r.v = Replaced(fname)
                       /\ Len(r.v) >= 1
                       /\ \A i \in 1..Len(r.v) : r.v[i] \in FilesafeClass
            /\ (\E i \in 1..Len(fname) : fname[i] \notin FilesafeClass \cup {"@", "/"}) => ~r.ok

\* C5 witness: a name holding both '@' and '/' was accepted.
C5_Witness ==
    /\ fresult.op = "filesafe_package_name"
    /\ fresult.value.ok
    /\ \E i \in 1..Len(fname) : fname[i] = "@"
    /\ \E i \in 1..Len(fname) : fname[i] = "/"

(***************************************************************************)
(* config.rs: deserialization.  A document value is null, a string, a      *)
(* mapping (a function from its keys) or a list; Missing stands for a key  *)
(* its parent mapping does not hold.                                       *)
(***************************************************************************)
DNull == [t |-> "null"]
DStr(s) == [t |-> "str", s |-> s]
DMap(m) == [t |-> "map", m |-> m]
DList(l) == [t |-> "list", l |-> l]
Missing == [t |-> "missing"]

\* enum CopyDef
Simple(g) == [kind |-> "Simple", glob |-> g]
Set(fs) == [kind |-> "Set", set |-> fs]

\* String::deserialize
de_String(d) == IF d.t = "str" THEN Ok(d.s) ELSE Err("invalid type")

\* Option<String>::deserialize
de_OptionString(d) ==
    IF d.t = "null" THEN Ok(None)
    ELSE IF d.t = "str" THEN Ok(Some(d.s))
    ELSE Err("invalid type")

\* T::deserialize for the element types of the list-valued fields
RECURSIVE de_elem(_, _)

\* Vec<T>::deserialize over the elements of a list
de_Seq(T, l) ==
    IF \A i \in 1..Len(l) : de_elem(T, l[i]).ok
    THEN Ok([i \in 1..Len(l) |-> de_elem(T, l[i]).v])
    ELSE Err("invalid element")

\* Vec<T>::deserialize: a list and nothing else
de_Vec(T, d) == IF d.t = "list" THEN de_Seq(T, d.l) ELSE Err("invalid type")

\* #[serde(untagged)] enum MightBeSingle<T>: Multiple(Vec<T>), then One(T),
\* then the unit variant None
MightBeSingle_deserialize(T, d) ==
    LET multiple == de_Vec(T, d)
        one == de_elem(T, d)
    IN  IF multiple.ok THEN Ok([variant |-> "Multiple", v |-> multiple.v])
        ELSE IF one.ok THEN Ok([variant |-> "One", v |-> one.v])
        ELSE IF d.t = "null" THEN Ok([variant |-> "None"])
        ELSE Err("data did not match any variant of untagged enum MightBeSingle")

\* A wrong conversion: a single value is dropped.
MightBeSingle_into_drop_one(x) ==
    CASE x.variant = "Multiple" -> x.v
      [] x.variant = "One" -> <<>>
      [] x.variant = "None" -> <<>>

\* impl From<MightBeSingle<T>> for Vec<T>
MightBeSingle_into(x) ==
    CASE x.variant = "Multiple" -> x.v
      [] x.variant = "One" -> <<x.v>>
      [] x.variant = "None" -> <<>>

might_be_single(T, d) ==
    LET x == MightBeSingle_deserialize(T, d)
    IN  IF x.ok THEN Ok(MightBeSingle_into(x.v)) ELSE x

\* The fields of the derived structs: kind is how the value is deserialized
\* (opt_string: Option<String>, mbs_string: might_be_single over String,
\* vec_string: Vec<String>), default whether #[serde(default)] is given.
FileSetFields ==
    << [key |-> "from", kind |-> "opt_string", default |-> FALSE],
       [key |-> "to", kind |-> "opt_string", default |-> TRUE],
       [key |-> "filter", kind |-> "mbs_string", default |-> TRUE] >>

ProtocolAssociationFields ==
    << [key |-> "name", kind |-> "opt_string", default |-> FALSE],
       [key |-> "schemes", kind |-> "vec_string", default |-> FALSE] >>

FileAssociationFields ==
    << [key |-> "ext", kind |-> "mbs_string", default |-> FALSE],
       [key |-> "mimeType", kind |-> "opt_string", default |-> FALSE] >>

de_kind(kind, d) ==
    CASE kind = "opt_string" -> de_OptionString(d)
      [] kind = "mbs_string" -> might_be_single("String", d)
      [] kind = "vec_string" -> de_Vec("String", d)

\* What #[derive(Deserialize)] gives a field whose key the mapping lacks:
\* the default if declared, None for an Option, else the error "missing field"
\* (a deserialize_with field without default is required).
missing_field(f) ==
    IF f.default THEN Ok(IF f.kind = "opt_string" THEN None ELSE <<>>)
    ELSE IF f.kind = "opt_string" THEN Ok(None)
    ELSE Err("missing field")

\* What it gives a field the sequence is too short for.
missing_element(f) ==
    IF f.default THEN Ok(IF f.kind = "opt_string" THEN None ELSE <<>>)
    ELSE Err("invalid length")

\* #[derive(Deserialize)] on a struct with the given fields: from a mapping
\* by key (unknown keys ignored), or from a sequence by position.
de_struct(fields, d) ==
    LET n == Len(fields)
        part(i) ==
            IF d.t = "map"
            THEN IF fields[i].key \in DOMAIN d.m THEN de_kind(fields[i].kind, d.m[fields[i].key])
                 ELSE missing_field(fields[i])
            ELSE IF i <= Len(d.l) THEN de_kind(fields[i].kind, d.l[i])
                 ELSE missing_element(fields[i])
    IN  IF d.t \notin {"map", "list"} THEN Err("invalid type")
        ELSE IF d.t = "list" /\ Len(d.l) > n THEN Err("invalid length")
        ELSE IF \A i \in 1..n : part(i).ok
             THEN Ok([k \in {fields[i].key : i \in 1..n} |->
                        part(CHOOSE i \in 1..n : fields[i].key = k).v])
             ELSE Err("invalid field")

de_FileSet(d) == de_struct(FileSetFields, d)

de_ProtocolAssociation(d) == de_struct(ProtocolAssociationFields, d)

de_FileAssociation(d) == de_struct(FileAssociationFields, d)

\* #[serde(untagged)] enum CopyDef: Simple(String), then Set(FileSet)
de_CopyDef(d) ==
    LET simple == de_String(d)
        set == de_FileSet(d)
    IN  IF simple.ok THEN Ok(Simple(simple.v))
        ELSE IF set.ok THEN Ok(Set(set.v))
        ELSE Err("data did not match any variant of untagged enum CopyDef")

de_elem(T, d) ==
    CASE T = "String" -> de_String(d)
      [] T = "CopyDef" -> de_CopyDef(d)
      [] T = "ProtocolAssociation" -> de_ProtocolAssociation(d)
      [] T = "FileAssociation" -> de_FileAssociation(d)

\* The list-valued fields of the config structs: the element type, whether
\* #[serde(default)] is given, whether deserialize_with = "might_be_single".
ListFieldDecl ==
    [ files             |-> [elem |-> "CopyDef", default |-> TRUE, mbs |-> TRUE],
      asar_unpack       |-> [elem |-> "String", default |-> TRUE, mbs |-> TRUE],
      extra_files       |-> [elem |-> "CopyDef", default |-> TRUE, mbs |-> TRUE],
      extra_resources   |-> [elem |-> "CopyDef", default |-> TRUE, mbs |-> TRUE],
      protocols         |-> [elem |-> "ProtocolAssociation", default |-> TRUE, mbs |-> TRUE],
      file_associations |-> [elem |-> "FileAssociation", default |-> TRUE, mbs |-> TRUE],
      category          |-> [elem |-> "String", default |-> TRUE, mbs |-> TRUE],
      filter            |-> [elem |-> "String", default |-> TRUE, mbs |-> TRUE],
      ext               |-> [elem |-> "String", default |-> FALSE, mbs |-> TRUE],
      schemes           |-> [elem |-> "String", default |-> FALSE, mbs |-> FALSE] ]

\* The value a list-valued field f gets from the document d under its key.
deserialize_list_field(f, d) ==
    LET decl == ListFieldDecl[f]
    IN  IF d = Missing THEN (IF decl.default THEN Ok(<<>>) ELSE Err("missing field"))
        ELSE IF decl.mbs THEN might_be_single(decl.elem, d)
        ELSE de_Vec(decl.elem, d)

(***************************************************************************)
(* SpecDeser: every list-valued field deserialized from every document of  *)
(* DocPool, whose lists hold at most MaxDocLen elements.                   *)
(***************************************************************************)
\* mappings as a config may hold them: FileSets, protocol and file
\* associations, well-formed and not
MapPool ==
    { DMap([from |-> DStr("d")]),
      DMap([from |-> DStr("d"), to |-> DStr("o"), filter |-> DList(<<DStr("s1"), DStr("s2")>>)]),
      DMap([filter |-> DStr("s1")]),
      DMap([to |-> DStr("o"), filter |-> DNull]),
      DMap([from |-> DList(<<DStr("d")>>)]),
      DMap([schemes |-> DList(<<DStr("s1"), DStr("s2")>>)]),
      DMap([name |-> DStr("n"), schemes |-> DStr("s1")]),
      DMap([ext |-> DStr("s1"), mimeType |-> DStr("m")]),
      DMap([ext |-> DList(<<DStr("s1"), DStr("s2")>>)]),
      DMap([mimeType |-> DStr("m")]) }

ElemPool == {DNull, DStr("s1"), DStr("s2")} \cup MapPool

RECURSIVE DocLists(_)
DocLists(n) ==
    IF n = 0 THEN {<<>>}
    ELSE LET shorter == DocLists(n - 1)
         IN  shorter \cup {Append(l, e) : l \in shorter, e \in ElemPool}

DocPool == {Missing} \cup ElemPool \cup {DList(l) : l \in DocLists(MaxDocLen)}

InitDeser ==
    /\ field \in DOMAIN ListFieldDecl
    /\ doc \in DocPool
    /\ parsed = NoCall
    /\ IdleCfg /\ IdleFs /\ IdleWk /\ IdlePp

deserialize ==
    /\ parsed = NoCall
    /\ parsed' = [op |-> "deserialize", value |-> deserialize_list_field(field, doc)]
    /\ UNCHANGED <<field, doc, cfgVars, fsVars, wkVars, ppVars>>

NextDeser == deserialize

SpecDeser == InitDeser /\ [][NextDeser]_vars

\* Whether d is a single scalar or mapping that is a well-formed T.
IsSingle(T, d) == d.t \in {"str", "map"} /\ de_elem(T, d).ok

\* The three rules of a might-be-single field, for the documents they cover.
SingleOrListRules(T) ==
    /\ doc = DNull => parsed.value = Ok(<<>>)
    /\ IsSingle(T, doc) => parsed.value = Ok(<<de_elem(T, doc).v>>)
    /\ (doc.t = "list" /\ \A i \in 1..Len(doc.l) : IsSingle(T, doc.l[i])) =>
          /\ parsed.value.ok
          /\ Len(parsed.value.v) = Len(doc.l)
          /\ \A i \in 1..Len(doc.l) : parsed.value.v[i] = de_elem(T, doc.l[i]).v

\* How a CopyDef element comes out: Simple from a string, Set from a mapping,
\* with absent from/to as None and an absent filter as the empty list.
CopyDefRule ==
    (ListFieldDecl[field].elem = "CopyDef" /\ IsSingle("CopyDef", doc)) =>
        LET e == parsed.value.v[1]
        IN  /\ doc.t = "str" => e = Simple(doc.s)
            /\ doc.t = "map" =>
                  /\ e.kind = "Set"
                  /\ e.set.from = (IF "from" \in DOMAIN doc.m THEN Some(doc.m.from.s) ELSE None)
                  /\ "to" \notin DOMAIN doc.m => e.set.to = None
                  /\ "filter" \notin DOMAIN doc.m => e.set.filter = <<>>

\* C6 as stated: every list-valued config field deserializes a null or
\* missing value to the empty list, a single scalar or mapping to a
\* one-element list and a list to the same list in the same order; a CopyDef
\* element is Simple from a string and Set from a mapping.
C6_EveryListField ==
    parsed.op = "deserialize" =>
        /\ doc = Missing => parsed.value = Ok(<<>>)
        /\ SingleOrListRules(ListFieldDecl[field].elem)
        /\ CopyDefRule

\* C6 amended: the rules hold for every field declared with both
\* #[serde(default)] and might_be_single; FileAssociation.ext follows them
\* except that a missing ext is an error; ProtocolAssociation.schemes is a
\* plain Vec<String> that takes a list of strings and rejects everything else.
C6_MightBeSingleFields ==
    parsed.op = "deserialize" =>
        LET decl == ListFieldDecl[field]
        IN  /\ (decl.mbs /\ decl.default) =>
                  /\ doc = Missing => parsed.value = Ok(<<>>)
                  /\ SingleOrListRules(decl.elem)
                  /\ CopyDefRule
            /\ field = "ext" =>
                  /\ doc = Missing => ~parsed.value.ok
                  /\ SingleOrListRules("String")
            /\ field = "schemes" =>
                  IF doc.t = "list" /\ \A i \in 1..Len(doc.l) : doc.l[i].t = "str"
                  THEN parsed.value = Ok([i \in 1..Len(doc.l) |-> doc.l[i].s])
                  ELSE ~parsed.value.ok

\* C6 witness: a single mapping was deserialized into a one-element list
\* holding a Set, for a field of CopyDefs.
C6_Witness ==
    /\ parsed.op = "deserialize"
    /\ field = "extra_resources"
    /\ doc = DMap([from |-> DStr("d")])
    /\ parsed.value = Ok(<<Set([from |-> Some("d"), to |-> None, filter |-> <<>>])>>)

(***************************************************************************)
(* Paths (std::path), the project tree and glob patterns.                  *)
(***************************************************************************)
IsPrefix(a, b) == Len(a) <= Len(b) /\ SubSeq(b, 1, Len(a)) = a

\* Path::join: an absolute right-hand side replaces the left-hand side.
join(a, b) == IF b # <<>> /\ Head(b) = "/" THEN b ELSE a \o b

\* Path::strip_prefix: Err(StripPrefixError) unless base is a prefix.
strip_prefix(p, base) ==
    IF IsPrefix(base, p) THEN Ok(SubSeq(p, Len(base) + 1, Len(p))) ELSE Err("StripPrefixError")

\* FileSet::from / FileSet::to: the configured string without a leading "./".
strip_dot_slash(o) ==
    IF o.some /\ o.v # <<>> /\ Head(o.v) = "." THEN Some(Tail(o.v)) ELSE o

FileSet_from(set) == strip_dot_slash(set.from)

FileSet_to(set) == strip_dot_slash(set.to)

\* The project directory, as WalkDir lists it: every entry below the root
\* with its path relative to the root, a directory before its contents.
\* By the time a Walker is built the output directory is part of it:
\* proceed has created tasje_out/resources and pack_asar has created
\* app.asar in it.
Tree ==
    << [path |-> <<>>, is_file |-> FALSE],
       [path |-> <<"a.js">>, is_file |-> TRUE],
       [path |-> <<"README.md">>, is_file |-> TRUE],
       [path |-> <<"d">>, is_file |-> FALSE],
       [path |-> <<"d", "b.js">>, is_file |-> TRUE],
       [path |-> <<"d", "c.md">>, is_file |-> TRUE],
       [path |-> <<"node_modules">>, is_file |-> FALSE],
       [path |-> <<"node_modules", "m.js">>, is_file |-> TRUE],
       [path |-> <<"tasje_out">>, is_file |-> FALSE],
       [path |-> <<"tasje_out", "resources">>, is_file |-> FALSE],
       [path |-> <<"tasje_out", "resources", "app.asar">>, is_file |-> TRUE] >>

\* WalkDir::new(start).into_iter(): start itself and everything below it;
\* a start that does not exist gives one Err entry, which the Walker skips.
WalkDir(r, start) ==
    LET full(i) == [path |-> r \o Tree[i].path, is_file |-> Tree[i].is_file]
    IN  SelectSeq([i \in 1..Len(Tree) |-> full(i)], LAMBDA e : IsPrefix(start, e.path))

\* A file name split at its dots.
SplitDots(name) ==
    CASE name = "a.js" -> <<"a", "js">>
      [] name = "b.js" -> <<"b", "js">>
      [] name = "m.js" -> <<"m", "js">>
      [] name = "c.md" -> <<"c", "md">>
      [] name = "README.md" -> <<"README", "md">>
      [] name = "app.asar" -> <<"app", "asar">>
      [] OTHER -> <<name>>

\* A glob is [neg, segs]: whether the pattern string starts with '!', and
\* its '/'-separated segments.  A segment is [k, of]:
\*   "**"     any number of components
\*   "*"      one component
\*   "lit"    one of the literal names `of` (a brace list of names)
\*   "*."     a name ending in "." and one of the extensions `of`
\*   "*.x.*"  a name with one of `of` as an inner dot-separated part
\*   "._*"    a name starting with "._" (no name of Tree does)
Glob(neg, segs) == [neg |-> neg, segs |-> segs]

Seg(k, of) == [k |-> k, of |-> of]

SegMatch(seg, name) ==
    LET parts == SplitDots(name)
        n == Len(parts)
    IN  CASE seg.k = "*" -> TRUE
          [] seg.k = "lit" -> name \in seg.of
          [] seg.k = "*." ->
                \E ext \in seg.of :
                    n > Len(ext) /\ SubSeq(parts, n - Len(ext) + 1, n) = ext
          [] seg.k = "*.x.*" -> \E i \in 2..(n - 1) : parts[i] \in seg.of
          [] OTHER -> FALSE

RECURSIVE GlobMatch(_, _)
GlobMatch(segs, comps) ==
    IF segs = <<>> THEN comps = <<>>
    ELSE IF Head(segs).k = "**"
         THEN GlobMatch(Tail(segs), comps)
              \/ (comps # <<>> /\ GlobMatch(segs, Tail(comps)))
         ELSE /\ comps # <<>>
              /\ SegMatch(Head(segs), Head(comps))
              /\ GlobMatch(Tail(segs), Tail(comps))

\* Globreeks::evaluate_candidate: the last pattern of the list that matches
\* the path decides; a path that matches no pattern is not accepted.
evaluate_candidate(globs, path) ==
    LET M == {i \in 1..Len(globs) : GlobMatch(globs[i].segs, path)}
    IN  M # {} /\ ~globs[CHOOSE i \in M : \A j \in M : j <= i].neg

(***************************************************************************)
(* pack.rs: the globs the packer adds around the configured ones.          *)
(***************************************************************************)
\* "node_modules/**/*"
NODE_MODULES_GLOB == Simple(Glob(FALSE, <<Seg("lit", {"node_modules"}), Seg("**", {}), Seg("*", {})>>))

\* The forced excludes "!**/<last segment>", in the order of the source.
FORCED_FILTERS ==
    LET forced(segs) == Simple(Glob(TRUE, <<Seg("**", {})>> \o segs))
        cat2(A, B) == {a \o b : a \in A, b \in B}
    IN  << forced(<<Seg("lit", {"node_modules"}), Seg("lit", {".bin"})>>),
           forced(<<Seg("*.", {<<"md">>, <<"rst">>, <<"markdown">>})>>),
           forced(<<Seg("lit", {"__tests__", "powered-test", "spec", "example", "examples",
                                "readme", "README", "Readme", "changelog", "CHANGELOG",
                                "Changelog", "ChangeLog"})>>),
           forced(<<Seg("*.x.*", {"spec", "test"})>>),
           forced(<<Seg("._*", {})>>),
           forced(<<Seg("lit", {".editorconfig", ".DS_Store", ".git", ".svn", ".hg", "CVS",
                                "RCS", ".gitattributes", ".nvmrc", ".nycrc", "Makefile",
                                "CMakeLists.txt"})>>),
           forced(<<Seg("lit", {"__pycache__", "thumbs.db", ".flowconfig", ".idea", ".vs",
                                ".vscode", ".nyc_output", ".docker-compose.yml"})>>),
           forced(<<Seg("lit", {".github", ".gitlab", ".gitlab-ci.yml", "appveyor.yml",
                                ".travis.yml", "circle.yml", ".woodpecker.yml"})>>),
           forced(<<Seg("lit", {"package-lock.json", "yarn.lock"})>>),
           forced(<<Seg("lit", cat2(cat2({"."}, {"git", "eslint", "tslint", "prettier",
                                                 "docker", "npm", "yarn"}), {"ignore"}))>>),
           forced(<<Seg("lit", cat2(cat2({"."}, {"prettier", "eslint", "jshint", "jsdoc"}),
                                    {"rc"}))>>),
           forced(<<Seg("lit", cat2({".prettierrc", "webpack.config", ".jshintrc", "jsdoc",
                                     ".eslintrc", "tsconfig"},
                                    {"", ".json", ".js", ".yml", "yaml"}))>>),
           forced(<<Seg("lit", cat2(cat2(cat2({"yarn", "npm"}, {"-"}), {"debug", "error"}),
                                    {"", ".log", ".json"}))>>),
           forced(<<Seg("lit", cat2(cat2(cat2({"."}, {"yarn", "npm"}), {"-"}),
                                    {"metadata", "integrity"}))>>),
           forced(<<Seg("*.", {<<"iml">>, <<"o">>, <<"hprof">>, <<"orig">>, <<"pyc">>,
                               <<"pyo">>, <<"rbc">>, <<"swp">>, <<"csproj">>, <<"sln">>,
                               <<"xproj">>, <<"c">>, <<"h">>, <<"cc">>, <<"cpp">>, <<"hpp">>,
                               <<"lzz">>, <<"gyp">>, <<"d", "ts">>})>>) >>

\* PathBuf::from("/")
ROOT == <<"/">>

(***************************************************************************)
(* walker.rs: the Walker.                                                  *)
(***************************************************************************)
\* Walker::new keeping the Sets in the reverse of their declared order.
Walker_new_sets_reversed(r, to_copy, unpack_list) ==
    LET globs == SelectSeq(to_copy, LAMBDA c : c.kind = "Simple")
        sets == SelectSeq(to_copy, LAMBDA c : c.kind = "Set")
        n == Len(sets)
    IN  [ root |-> r,
          globs |-> [i \in 1..Len(globs) |-> globs[i].glob],
          sets |-> [i \in 1..n |-> [set |-> sets[n + 1 - i].set, filters |-> sets[n + 1 - i].set.filter]],
          current_set |-> None,
          current_walk |-> WalkDir(r, r),
          done_with_globs |-> globs = <<>>,
          unpack_globs |-> unpack_list ]

\* Walker::new.  The globs of this model carry no template variable.
Walker_new(r, to_copy, unpack_list) ==
    LET globs == SelectSeq(to_copy, LAMBDA c : c.kind = "Simple")
        sets == SelectSeq(to_copy, LAMBDA c : c.kind = "Set")
    IN  [ root |-> r,
          globs |-> [i \in 1..Len(globs) |-> globs[i].glob],
          sets |-> [i \in 1..Len(sets) |-> [set |-> sets[i].set, filters |-> sets[i].set.filter]],
          current_set |-> None,
          current_walk |-> WalkDir(r, r),
          done_with_globs |-> globs = <<>>,
          unpack_globs |-> unpack_list ]

\* Walker::next_current_walk: advance current_walk to the next regular file
\* that self.globs accepts; [w, item] is the Walker afterwards and the
\* Option<(path, unpack)> returned.  A path outside the root panics.
next_current_walk(w) ==
    LET walk == w.current_walk
        first(S) == IF S = {} THEN 0 ELSE CHOOSE i \in S : \A j \in S : i <= j
        found(k, path) ==
            IF ~path.ok THEN [w |-> w, item |-> None, panic |-> TRUE]
            ELSE [ w |-> [w EXCEPT !.current_walk = SubSeq(walk, k + 1, Len(walk))],
                   item |-> Some([ path |-> path.v,
                                   unpack |-> IF w.unpack_globs.some
                                              THEN evaluate_candidate(w.unpack_globs.v, path.v)
                                              ELSE FALSE ]),
                   panic |-> FALSE ]
        at(k) ==
            IF k = 0 THEN [w |-> [w EXCEPT !.current_walk = <<>>], item |-> None, panic |-> FALSE]
            ELSE found(k, strip_prefix(walk[k].path, w.root))
    IN  at(first({i \in 1..Len(walk) :
                    LET path == strip_prefix(walk[i].path, w.root)
                    IN  ~path.ok \/ (evaluate_candidate(w.globs, path.v) /\ walk[i].is_file)}))

\* walker.rs:103-111: the destination of a file found while walking a Set.
\* The unwrap of strip_prefix panics when the path is not below `from`.
set_dest_keep_from(set, path) ==
    IF FileSet_to(set).some THEN Ok(join(FileSet_to(set).v, path)) ELSE Ok(path)

set_dest(set, path) ==
    LET to == FileSet_to(set)
        suffix == strip_prefix(path, UnwrapOr(FileSet_from(set), <<>>))
    IN  IF ~to.some THEN Ok(path)
        ELSE IF suffix.ok THEN Ok(join(to.v, suffix.v))
        ELSE Err("panic")

\* The next Set taken with its filters as written, nothing put in front.
next_set_filters_only(w) ==
    LET new == Head(w.sets)
    IN  [w EXCEPT !.sets = Tail(w.sets),
                  !.current_set = Some(new.set),
                  !.current_walk = WalkDir(w.root, join(w.root, UnwrapOr(FileSet_from(new.set), <<>>))),
                  !.globs = new.filters]

\* walker.rs:116-129: take the next Set: walk root/from with the Set's own
\* filters, "**/*" put in front when none of them is positive.
next_set(w) ==
    LET new == Head(w.sets)
        all == Glob(FALSE, <<Seg("**", {}), Seg("*", {})>>)
        positive == {i \in 1..Len(new.filters) : ~new.filters[i].neg}
    IN  [w EXCEPT !.sets = Tail(w.sets),
                  !.current_set = Some(new.set),
                  !.current_walk = WalkDir(w.root, join(w.root, UnwrapOr(FileSet_from(new.set), <<>>))),
                  !.globs = IF positive = {} THEN <<all>> \o new.filters ELSE new.filters]

Yield(w, source, dest, must_unpack) ==
    [ w |-> w, panic |-> FALSE,
      item |-> Some([source |-> source, dest |-> dest, unpack |-> must_unpack, set |-> w.current_set]) ]

\* walker.rs:98-133: the loop over the Sets.
RECURSIVE next_loop(_)
next_loop(w) ==
    LET more(w1) ==
            IF w1.sets # <<>> THEN next_loop(next_set(w1))
            ELSE [w |-> w1, item |-> None, panic |-> FALSE]
        yield(w1, path, dest, must_unpack) ==
            IF dest.ok THEN Yield(w1, join(w.root, path), dest.v, must_unpack)
            ELSE [w |-> w1, item |-> None, panic |-> TRUE]
        walked(r) ==
            IF r.panic THEN [w |-> w, item |-> None, panic |-> TRUE]
            ELSE IF r.item.some
            THEN yield(r.w, r.item.v.path, set_dest(w.current_set.v, r.item.v.path), r.item.v.unpack)
            ELSE more(r.w)
    IN  IF w.current_set.some THEN walked(next_current_walk(w)) ELSE more(w)

\* Walker::next: [w, item, panic] is the Walker afterwards, the Option of
\* the triple returned (with the Set it came from), and whether it panicked.
Walker_next(w) ==
    LET walked(r) ==
            IF r.panic THEN [w |-> w, item |-> None, panic |-> TRUE]
            ELSE IF r.item.some
            THEN Yield(r.w, join(w.root, r.item.v.path), r.item.v.path, r.item.v.unpack)
            ELSE next_loop([r.w EXCEPT !.done_with_globs = TRUE])
    IN  IF w.done_with_globs THEN next_loop(w) ELSE walked(next_current_walk(w))

(***************************************************************************)
(* pack.rs: pack_asar and pack_extra, one Walker item per step.            *)
(***************************************************************************)
\* PackingProcessBuilder::build with no override: <root>/tasje_out and
\* <root>/tasje_out/resources.
base_output_dir(r) == join(r, <<"tasje_out">>)

resources_output_dir(r) == join(base_output_dir(r), <<"resources">>)

\* pack_asar with the forced excludes put before the configured files.
pack_asar_begin_forced_first ==
    /\ pc = "start"
    /\ target' = resources_output_dir(root)
    /\ walker' = Walker_new(root,
                            <<NODE_MODULES_GLOB>> \o FORCED_FILTERS \o copydefs \o additional,
                            IF unpack # <<>> THEN Some(unpack) ELSE None)
    /\ pc' = "pack_asar"
    /\ disk' = [disk EXCEPT !.asar_file = Some(<<>>)]
    /\ UNCHANGED <<root, copydefs, additional, unpack, yielded, asar, copied>>
    /\ UNCHANGED <<cfgVars, fsVars, deVars, builder, process, log>>

\* pack_asar leaving app.asar alone until the archive is finalized.
pack_asar_begin_create_late ==
    /\ pc = "start"
    /\ target' = resources_output_dir(root)
    /\ walker' = Walker_new(root,
                            <<NODE_MODULES_GLOB>> \o copydefs \o additional \o FORCED_FILTERS,
                            IF unpack # <<>> THEN Some(unpack) ELSE None)
    /\ pc' = "pack_asar"
    /\ UNCHANGED <<root, copydefs, additional, unpack, yielded, asar, copied>>
    /\ UNCHANGED <<cfgVars, fsVars, deVars, ppVars>>

\* pack_asar up to the loop: create (or truncate) app.asar, compose the
\* glob list and build the Walker.
pack_asar_begin ==
    /\ pc = "start"
    /\ target' = resources_output_dir(root)
    /\ walker' = Walker_new(root,
                            <<NODE_MODULES_GLOB>> \o copydefs \o additional \o FORCED_FILTERS,
                            IF unpack # <<>> THEN Some(unpack) ELSE None)
    /\ pc' = "pack_asar"
    /\ disk' = [disk EXCEPT !.asar_file = Some(<<>>)]
    /\ UNCHANGED <<root, copydefs, additional, unpack, yielded, asar, copied>>
    /\ UNCHANGED <<cfgVars, fsVars, deVars, builder, process, log>>

\* pack_asar copying every file into app.asar.unpacked, marked or not.
pack_asar_step_unpack_all ==
    /\ pc = "pack_asar"
    /\ LET unpack_dir == join(target, <<"app.asar.unpacked">>)
           failures(r) ==
               IF ~r.item.some THEN {"none"}
               ELSE IF r.item.v.unpack THEN {"none", "read", "copy"} ELSE {"none", "read"}
           write(r) ==
               \E failure \in failures(r) :
                   /\ walker' = r.w
                   /\ pc' = IF r.panic THEN "panicked"
                            ELSE IF failure # "none" THEN "pack_asar_failed"
                            ELSE IF r.item.some THEN "pack_asar" ELSE "pack_asar_done"
                   /\ yielded' = IF r.item.some THEN Append(yielded, r.item.v) ELSE yielded
                   /\ asar' = IF r.item.some /\ failure # "read"
                              THEN Append(asar, [path |-> join(ROOT, r.item.v.dest), source |-> r.item.v.source])
                              ELSE asar
                   /\ copied' = IF r.item.some /\ failure = "none"
                                THEN Append(copied, join(unpack_dir, r.item.v.dest))
                                ELSE copied
                   /\ disk' = IF ~r.panic /\ ~r.item.some
                              THEN [disk EXCEPT !.asar_file = Some(asar)]
                              ELSE disk
       IN  write(Walker_next(walker))
    /\ UNCHANGED <<root, copydefs, additional, unpack, target>>
    /\ UNCHANGED <<cfgVars, fsVars, deVars, builder, process, log>>

\* One iteration of the loop of pack_asar, or its end (asar.finalize writes
\* the archive into the file).  Reading the source may fail, and so may the
\* copy of a file to unpack; `?` then returns the error.
pack_asar_step ==
    /\ pc = "pack_asar"
    /\ LET unpack_dir == join(target, <<"app.asar.unpacked">>)
           failures(r) ==
               IF ~r.item.some THEN {"none"}
               ELSE IF r.item.v.unpack THEN {"none", "read", "copy"} ELSE {"none", "read"}
           write(r) ==
               \E failure \in failures(r) :
                   /\ walker' = r.w
                   /\ pc' = IF r.panic THEN "panicked"
                            ELSE IF failure # "none" THEN "pack_asar_failed"
                            ELSE IF r.item.some THEN "pack_asar" ELSE "pack_asar_done"
                   /\ yielded' = IF r.item.some THEN Append(yielded, r.item.v) ELSE yielded
                   /\ asar' = IF r.item.some /\ failure # "read"
                              THEN Append(asar, [path |-> join(ROOT, r.item.v.dest), source |-> r.item.v.source])
                              ELSE asar
                   /\ copied' = IF r.item.some /\ r.item.v.unpack /\ failure = "none"
                                THEN Append(copied, join(unpack_dir, r.item.v.dest))
                                ELSE copied
                   /\ disk' = IF ~r.panic /\ ~r.item.some
                              THEN [disk EXCEPT !.asar_file = Some(asar)]
                              ELSE disk
       IN  write(Walker_next(walker))
    /\ UNCHANGED <<root, copydefs, additional, unpack, target>>
    /\ UNCHANGED <<cfgVars, fsVars, deVars, builder, process, log>>

\* pack_extra composing its list the way pack_asar does.
pack_extra_begin_as_asar ==
    /\ pc = "start"
    /\ \E call \in { [step |-> "pack_extra_files", target |-> base_output_dir(root)],
                      [step |-> "pack_extra_resources", target |-> resources_output_dir(root)] } :
           /\ target' = call.target
           /\ IF copydefs \o additional = <<>>
              THEN pc' = "pack_extra_done" /\ UNCHANGED walker
              ELSE pc' = call.step
                   /\ walker' = Walker_new(root,
                                           <<NODE_MODULES_GLOB>> \o copydefs \o additional \o FORCED_FILTERS,
                                           None)
    /\ UNCHANGED <<root, copydefs, additional, unpack, yielded, asar, copied>>
    /\ UNCHANGED <<cfgVars, fsVars, deVars, ppVars>>

\* pack_extra up to the loop, as proceed calls it: for extra_files into the
\* base output directory, for extra_resources into resources/.  Nothing is
\* walked when there is nothing to copy.
pack_extra_begin ==
    /\ pc = "start"
    /\ \E call \in { [step |-> "pack_extra_files", target |-> base_output_dir(root)],
                      [step |-> "pack_extra_resources", target |-> resources_output_dir(root)] } :
           /\ target' = call.target
           /\ IF copydefs \o additional = <<>>
              THEN pc' = "pack_extra_done" /\ UNCHANGED walker
              ELSE pc' = call.step /\ walker' = Walker_new(root, copydefs \o additional, None)
    /\ UNCHANGED <<root, copydefs, additional, unpack, yielded, asar, copied>>
    /\ UNCHANGED <<cfgVars, fsVars, deVars, ppVars>>

\* One iteration of the loop of pack_extra, or its end.
pack_extra_step ==
    /\ pc \in {"pack_extra_files", "pack_extra_resources"}
    /\ LET copy(r) ==
               /\ walker' = r.w
               /\ pc' = IF r.panic THEN "panicked" ELSE IF r.item.some THEN pc ELSE "pack_extra_done"
               /\ yielded' = IF r.item.some THEN Append(yielded, r.item.v) ELSE yielded
               /\ copied' = IF r.item.some THEN Append(copied, join(target, r.item.v.dest)) ELSE copied
       IN  copy(Walker_next(walker))
    /\ UNCHANGED <<root, copydefs, additional, unpack, target, asar>>
    /\ UNCHANGED <<cfgVars, fsVars, deVars, ppVars>>

(***************************************************************************)
(* SpecWalker: one packing step (pack_asar or pack_extra) over the project *)
(* tree, for a CopyDef list of at most MaxDefs entries.  Here a FileSet    *)
(* holds its from / to as paths and its filters as globs.                  *)
(***************************************************************************)
GlobPool ==
    { Glob(FALSE, <<Seg("**", {}), Seg("*", {})>>),                      \* "**/*"
      Glob(TRUE, <<Seg("lit", {"d"}), Seg("**", {}), Seg("*", {})>>) }   \* "!d/**/*"

SetPool ==
    { [from |-> None, to |-> None, filter |-> <<Glob(FALSE, <<Seg("lit", {"a.js"})>>)>>],
      [from |-> Some(<<"d">>), to |-> None, filter |-> <<>>],
      [from |-> Some(<<"d">>), to |-> Some(<<"o">>), filter |-> <<>>],
      [from |-> Some(<<".", "d">>), to |-> Some(<<".", "o">>),
       filter |-> <<Glob(TRUE, <<Seg("**", {}), Seg("*.", {<<"md">>})>>)>>],
      [from |-> Some(<<"d">>), to |-> Some(<<"/", "o">>), filter |-> <<>>],
      [from |-> Some(<<"/", "p", "d">>), to |-> Some(<<"o">>), filter |-> <<>>],
      [from |-> Some(<<"d">>), to |-> None, filter |-> <<Glob(FALSE, <<Seg("lit", {"b.js"})>>)>>],
      [from |-> None, to |-> Some(<<"o">>),
       filter |-> <<Glob(FALSE, <<Seg("**", {}), Seg("*", {})>>)>>] }

CopyDefPool == {Simple(g) : g \in GlobPool} \cup {Set(s) : s \in SetPool}

RECURSIVE CopyDefLists(_)
CopyDefLists(n) ==
    IF n = 0 THEN {<<>>}
    ELSE CopyDefLists(n - 1)
         \cup {Append(l, c) : l \in {x \in CopyDefLists(n - 1) : Len(x) = n - 1}, c \in CopyDefPool}

InitWalker ==
    /\ root \in {<<"/", "p">>, <<"p">>}
    /\ copydefs \in CopyDefLists(MaxDefs)
    /\ additional \in {<<>>, <<Simple(Glob(FALSE, <<Seg("**", {}), Seg("*", {})>>))>>}
    /\ unpack \in {<<>>, <<Glob(FALSE, <<Seg("**", {}), Seg("*.", {<<"js">>})>>)>>}
    /\ additional = <<>> \/ unpack = <<>>
    /\ pc = "start"
    /\ target = <<>>
    /\ walker = [state |-> "none"]
    /\ yielded = <<>>
    /\ asar = <<>>
    /\ copied = <<>>
    /\ app = DefaultApp /\ ret = NoCall
    /\ builder = NoCall /\ process = NoCall /\ log = <<>>
    /\ disk \in { [asar_file |-> None],
                  [asar_file |-> Some(<<[path |-> <<"/", "a.js">>, source |-> <<"earlier run">>]>>)] }
    /\ IdleFs /\ IdleDe

NextWalker ==
    \/ pack_asar_begin
    \/ pack_asar_step
    \/ pack_extra_begin
    \/ pack_extra_step

SpecWalker == InitWalker /\ [][NextWalker]_vars

IsAbsolute(p) == p # <<>> /\ Head(p) = "/"

\* The configured from / to as the path it names: "" when absent, and
\* without a leading "./".
Named(o) == IF ~o.some THEN <<>> ELSE IF o.v # <<>> /\ Head(o.v) = "." THEN Tail(o.v) ELSE o.v

\* source == root/from/suffix and dest == to/suffix for the same suffix.
SameSuffix(t) ==
    \E k \in 0..Len(t.dest) :
        LET suffix == SubSeq(t.dest, k + 1, Len(t.dest))
        IN  /\ t.dest = Named(t.set.v.to) \o suffix
            /\ t.source = root \o Named(t.set.v.from) \o suffix

\* The path relations of the global-glob pass and of a Set with `to`.
PassRules(t) ==
    /\ ~t.set.some => t.source = root \o t.dest
    /\ (t.set.some /\ t.set.v.to.some) => SameSuffix(t)

C8_DestRelativeToFrom ==
    \A i \in 1..Len(yielded) :
        (yielded[i].set.some /\ ~yielded[i].set.v.to.some)
            => yielded[i].source = root \o Named(yielded[i].set.v.from) \o yielded[i].dest

\* C9: within one Walker pipeline no source path and no destination path
\* is yielded more than once.
C9_NoPathTwice ==
    \A i, j \in 1..Len(yielded) :
        i # j => /\ yielded[i].source # yielded[j].source
                 /\ yielded[i].dest # yielded[j].dest

\* The path, relative to root, matches one of the forced exclude patterns.
MatchesForced(path) ==
    \E k \in 1..Len(FORCED_FILTERS) : GlobMatch(FORCED_FILTERS[k].glob.segs, path)

\* C10: no file whose path below root matches a forced exclude pattern is
\* written into app.asar, whatever `files` and the additional files are.
C10_ForcedExcludes ==
    \A i \in 1..Len(asar) :
        ~MatchesForced(SubSeq(asar[i].source, Len(root) + 1, Len(asar[i].source)))

\* C11: the list pack_asar hands to the Walker is the node_modules glob,
\* then `files`, then the additional files, then the forced excludes in
\* their listed order: before the first Set is entered, the Walker's glob
\* list is the Simple entries of that composition in that order (the forced
\* excludes last), and its Sets are those of `files` then of the additional
\* files.
C11_CompositionOrder ==
    (pc = "pack_asar" /\ ~walker.current_set.some) =>
        LET user == copydefs \o additional
            simple == SelectSeq(user, LAMBDA c : c.kind = "Simple")
            sets == SelectSeq(user, LAMBDA c : c.kind = "Set")
            n == Len(simple)
        IN  /\ Len(walker.globs) = 1 + n + Len(FORCED_FILTERS)
            /\ walker.globs[1] = NODE_MODULES_GLOB.glob
            /\ \A i \in 1..n : walker.globs[1 + i] = simple[i].glob
            /\ \A i \in 1..Len(FORCED_FILTERS) :
                   walker.globs[1 + n + i] = FORCED_FILTERS[i].glob
            /\ Len(walker.sets) = Len(sets)
            /\ \A i \in 1..Len(sets) : walker.sets[i].set = sets[i].set

\* C11 witness: pack_asar has built its Walker from a `files` list with a
\* glob and a Set and from one additional file glob.
C11_Witness ==
    /\ pc = "pack_asar"
    /\ ~walker.current_set.some
    /\ Len(copydefs) = 2
    /\ copydefs[1].kind = "Simple" /\ copydefs[1].glob.neg
    /\ copydefs[2].kind = "Set"
    /\ Len(additional) = 1
    /\ Len(walker.globs) = 18

set_base_output_dir ==
    /\ pc = "builder"
    /\ ~builder.base_output_dir.some
    /\ \E path \in {<<"out">>, <<"/", "abs">>} :
           /\ builder' = [builder EXCEPT !.base_output_dir = Some(join(root, path))]
           /\ ret' = [op |-> "base_output_dir", path |-> path]
    /\ UNCHANGED <<app, root, pc, process, disk, log>>
    /\ UNCHANGED <<copydefs, additional, unpack, target, walker, yielded, asar, copied>>
    /\ UNCHANGED <<fsVars, deVars>>

\* PackingProcessBuilder::build
build ==
    /\ pc = "builder"
    /\ LET environment == UnwrapOr(builder.target_environment, "Linux")
           dir == join(root,
                       UnwrapOr(OptOr(builder.base_output_dir, output_dir(app.config, environment)),
                                <<"tasje_out">>))
       IN  process' = [ base_output_dir |-> dir,
                        icons_output_dir |-> join(dir, UnwrapOr(builder.icons_output_dir, <<"icons">>)),
                        resources_output_dir |-> join(dir, UnwrapOr(builder.resources_output_dir, <<"resources">>)),
                        environment |-> environment,
                        additional_extra_resources |-> builder.additional_extra_resources ]
    /\ pc' = "proceed"
    /\ UNCHANGED <<app, ret, root, builder, disk, log>>
    /\ UNCHANGED <<copydefs, additional, unpack, target, walker, yielded, asar, copied>>
    /\ UNCHANGED <<fsVars, deVars>>

\* The calls of proceed, in the order of its body.
ProceedSteps ==
    << "create_resources_dir", "create_icons_dir", "pack_asar", "pack_extra_files",
       "pack_extra_resources", "generate_desktop_file", "generate_icons" >>

\* What a call of proceed writes when it succeeds (for the copies of
\* pack_extra one file stands for all of them, and the desktop file has the
\* name the default manifest gives it).
StepOutput(step) ==
    LET extra(list, into) ==
            IF list \o process.additional_extra_resources = <<>> THEN {} ELSE {join(into, <<"a.js">>)}
    IN  CASE step = "create_resources_dir" -> {process.resources_output_dir}
          [] step = "create_icons_dir" -> {process.icons_output_dir}
          [] step = "pack_asar" -> {join(process.resources_output_dir, <<"app.asar">>)}
          [] step = "pack_extra_files" ->
                 extra(extra_files(app.config, process.environment), process.base_output_dir)
          [] step = "pack_extra_resources" ->
                 extra(extra_resources(app.config, process.environment), process.resources_output_dir)
          [] step = "generate_desktop_file" ->
                 IF process.environment = "Linux"
                 THEN {join(process.base_output_dir, <<"a.desktop">>)}
                 ELSE {}
          [] step = "generate_icons" -> {join(process.icons_output_dir, <<"size-list">>)}

\* proceed going on to the next call after a failed one.
proceed_step_keep_going ==
    /\ pc = "proceed"
    /\ LET i == Len(log) + 1
           call(step) ==
               \E ok \in {TRUE} \cup {FALSE : x \in StepOutput(step)} :
               \E written \in IF ok THEN {StepOutput(step)} ELSE SUBSET StepOutput(step) :
                   /\ log' = Append(log, [step |-> step, ok |-> ok])
                   /\ disk' = disk \cup written
                   /\ IF i = Len(ProceedSteps)
                      THEN pc' = "returned"
                           /\ ret' = [op |-> "proceed", value |-> IF ok THEN Ok(<<>>) ELSE Err(step)]
                      ELSE UNCHANGED <<pc, ret>>
       IN  call(ProceedSteps[i])
    /\ UNCHANGED <<app, root, builder, process>>
    /\ UNCHANGED <<copydefs, additional, unpack, target, walker, yielded, asar, copied>>
    /\ UNCHANGED <<fsVars, deVars>>

\* PackingProcess::proceed, one call of its body at a time: the call
\* succeeds, or it fails (a call that has nothing to do cannot) having
\* written any part of its output, and `?` returns its error.
proceed_step ==
    /\ pc = "proceed"
    /\ LET i == Len(log) + 1
           call(step) ==
               \E ok \in {TRUE} \cup {FALSE : x \in StepOutput(step)} :
               \E written \in IF ok THEN {StepOutput(step)} ELSE SUBSET StepOutput(step) :
                   /\ log' = Append(log, [step |-> step, ok |-> ok])
                   /\ disk' = disk \cup written
                   /\ IF ~ok
                      THEN pc' = "returned" /\ ret' = [op |-> "proceed", value |-> Err(step)]
                      ELSE IF i = Len(ProceedSteps)
                      THEN pc' = "returned" /\ ret' = [op |-> "proceed", value |-> Ok(<<>>)]
                      ELSE UNCHANGED <<pc, ret>>
       IN  call(ProceedSteps[i])
    /\ UNCHANGED <<app, root, builder, process>>
    /\ UNCHANGED <<copydefs, additional, unpack, target, walker, yielded, asar, copied>>
    /\ UNCHANGED <<fsVars, deVars>>

(***************************************************************************)
(* SpecPack: a builder for an App whose config may set directories.output  *)
(* and extraFiles, as the command line creates it (tasje.rs:96-97), then   *)
(* build and proceed.  The output directory may hold files of an earlier   *)
(* run.                                                                    *)
(***************************************************************************)
InitPack ==
    /\ root \in {<<"/", "p">>, <<"p">>}
    /\ \E base, linux \in {None, Some(<<"dist">>), Some(<<"/", "abs">>)}, extra \in {<<>>, <<Simple(Glob(FALSE, <<Seg("**", {}), Seg("*", {})>>))>>} :
           app = [DefaultApp EXCEPT !.config.base.directories.output = base,
                                    !.config.linux.directories.output = linux,
                                    !.config.base.extra_files = extra]
    /\ \E P \in Platform, add \in {<<>>, <<Simple(Glob(FALSE, <<Seg("lit", {"a.js"})>>))>>} :
           builder = [ base_output_dir |-> None, icons_output_dir |-> None,
                       resources_output_dir |-> None, target_environment |-> Some(P),
                       additional_extra_resources |-> add ]
    /\ process = NoCall
    /\ disk \in {{}, {<<"/", "abs", "resources", "app.asar">>}}
    /\ log = <<>>
    /\ ret = NoCall
    /\ pc = "builder"
    /\ copydefs = <<>> /\ additional = <<>> /\ unpack = <<>> /\ target = <<>>
    /\ walker = [state |-> "none"] /\ yielded = <<>> /\ asar = <<>> /\ copied = <<>>
    /\ IdleFs /\ IdleDe

NextPack ==
    \/ set_base_output_dir
    \/ build
    \/ proceed_step

SpecPack == InitPack /\ [][NextPack]_vars

\* C13: proceed makes its calls strictly in the order create resources/,
\* create icons/, pack asar, pack extra files, pack extra resources,
\* desktop file, icons, each once; a failed call is the last one made and
\* its error is what proceed returns; whatever the earlier calls wrote
\* stays on disk, and nothing happens after proceed has returned.
C13_ProceedOrder ==
    /\ [](pc \in {"proceed", "returned"} =>
            /\ Len(log) <= Len(ProceedSteps)
            /\ \A i \in 1..Len(log) :
                /\ log[i].step = ProceedSteps[i]
                /\ i < Len(log) => log[i].ok
                /\ log[i].ok => StepOutput(log[i].step) \subseteq disk
                /\ ~log[i].ok => pc = "returned" /\ ret.value = Err(log[i].step)
            /\ pc = "returned" =>
                /\ ret.op = "proceed"
                /\ ret.value.ok <=> (Len(log) = Len(ProceedSteps) /\ log[Len(log)].ok))
    /\ [][disk \subseteq disk' /\ pc # "returned"]_vars

\* C13 witness: proceed has returned the error of pack_extra_files, its
\* fourth call, with the archive of the third call on disk.
C13_Witness ==
    /\ pc = "returned"
    /\ ret.value = Err("pack_extra_files")
    /\ Len(log) = 4
    /\ join(process.resources_output_dir, <<"app.asar">>) \in disk

\* C14: the base output directory is the builder's base_output_dir resolved
\* under root when one was set, else root joined with the config's
\* output_dir for the target platform (the platform section's
\* directories.output, else the base one), else root/tasje_out; resources/
\* and icons/ are its direct children.
C14_BaseOutputDir ==
    pc = "proceed" =>
        LET section == current_platform(app.config, process.environment).directories.output
            configured == IF section.some THEN section ELSE app.config.base.directories.output
            expected == IF ret # NoCall THEN join(root, ret.path)
                        ELSE IF configured.some THEN join(root, configured.v)
                        ELSE root \o <<"tasje_out">>
        IN  /\ process.base_output_dir = expected
            /\ process.resources_output_dir = expected \o <<"resources">>
            /\ process.icons_output_dir = expected \o <<"icons">>

(***************************************************************************)
(* icons.rs: IconGenerator.  A size is a pair <<width, height>>; a file    *)
(* name is read and written as its characters.  The IconGenerator's        *)
(* icon_sizes and the index of the next location are in `process`, the     *)
(* files read and the icons directory in `disk`, the PNGs written in       *)
(* `log`.                                                                  *)
(***************************************************************************)
Digits == <<"0", "1", "2", "3", "4", "5", "6", "7", "8", "9">>

\* the decimal text of a number, as format!("{w}") writes it
RECURSIVE format_u64(_)
format_u64(n) ==
    IF n < 10 THEN <<Digits[n + 1]>>
    ELSE Append(format_u64(n \div 10), Digits[(n % 10) + 1])

\* str::parse::<u64> of a string of digits
RECURSIVE parse_u64(_)
parse_u64(s) ==
    IF s = <<>> THEN 0
    ELSE parse_u64(SubSeq(s, 1, Len(s) - 1)) * 10
         + (CHOOSE d \in 0..9 : Digits[d + 1] = s[Len(s)])

\* the characters of the file names of the model
NameChars(name) ==
    CASE name = "16x16.png" -> <<"1", "6", "x", "1", "6", ".", "p", "n", "g">>
      [] name = "016x16.png" -> <<"0", "1", "6", "x", "1", "6", ".", "p", "n", "g">>
      [] name = "8x16.png" -> <<"8", "x", "1", "6", ".", "p", "n", "g">>
      [] name = "icon.png" -> <<"i", "c", "o", "n", ".", "p", "n", "g">>
      [] name = "icon.icns" -> <<"i", "c", "o", "n", ".", "i", "c", "n", "s">>
      [] name = "icon.ico" -> <<"i", "c", "o", "n", ".", "i", "c", "o">>
      [] name = "icons" -> <<"i", "c", "o", "n", "s">>

\* PNG_SIZE_REGEX.captures: ^(\d+)x(\d+)\.png$
PNG_SIZE_REGEX(name) ==
    LET ext == <<".", "p", "n", "g">>
        digits(s) == s # <<>> /\ \A i \in 1..Len(s) : s[i] \in Digit
        splits == { i \in 2..(Len(name) - 5) :
                       /\ name[i] = "x"
                       /\ digits(SubSeq(name, 1, i - 1))
                       /\ digits(SubSeq(name, i + 1, Len(name) - 4))
                       /\ SubSeq(name, Len(name) - 3, Len(name)) = ext }
        captures(i) == [w |-> SubSeq(name, 1, i - 1), h |-> SubSeq(name, i + 1, Len(name) - 4)]
    IN  IF splits = {} THEN None ELSE Some(captures(CHOOSE i \in splits : TRUE))

\* format!("{width}x{height}.png") and format!("{w}x{h}")
png_name(size) == format_u64(size[1]) \o <<"x">> \o format_u64(size[2]) \o <<".", "p", "n", "g">>

\* the write guarded by icon_sizes.insert, with the guard left out
insert_size_always(st, size, from) ==
    [ st EXCEPT !.icon_sizes = @ \cup {size},
                !.icons = {f \in @ : f.name # png_name(size)}
                          \cup {[name |-> png_name(size), from |-> from]},
                !.log = Append(@, [size |-> size, from |-> from]) ]

\* if self.icon_sizes.insert((width, height)) { write <W>x<H>.png }
insert_size(st, size, from) ==
    IF size \in st.icon_sizes THEN st
    ELSE [ st EXCEPT !.icon_sizes = @ \cup {size},
                     !.icons = {f \in @ : f.name # png_name(size)}
                               \cup {[name |-> png_name(size), from |-> from]},
                     !.log = Append(@, [size |-> size, from |-> from]) ]

\* handle_file: dispatch on the first four bytes, then handle_icns /
\* handle_ico over the container's entries in order, or handle_png with the
\* size taken from the file name.  A file shorter than four bytes fails in
\* read_exact.
handle_file(st, path, file) ==
    LET RECURSIVE entries_from(_, _, _)
        entries_from(s, entries, i) ==
            IF i > Len(entries) THEN s
            ELSE entries_from(insert_size(s, entries[i], [path |-> path, entry |-> i]), entries, i + 1)
        sized(c) == IF c.some THEN <<<<parse_u64(c.v.w), parse_u64(c.v.h)>>>> ELSE <<>>
    IN  CASE file.magic = "short" -> [st EXCEPT !.ok = FALSE]
          [] file.magic \in {"icns", "ico"} -> entries_from(st, file.entries, 1)
          [] file.magic = "png" ->
                 entries_from(st, sized(PNG_SIZE_REGEX(NameChars(path[Len(path)]))), 1)
          [] OTHER -> st

\* The part of generate's loop for one location: handle_location.
handle_location ==
    /\ pc = "generate"
    /\ process.next <= Len(process.locations)
    /\ LET location == process.locations[process.next]
           node == IF location \in DOMAIN disk.tree THEN disk.tree[location] ELSE [kind |-> "none"]
           RECURSIVE read_dir(_, _)
           read_dir(s, i) ==
               IF i > Len(node.files) \/ ~s.ok THEN s
               ELSE read_dir(handle_file(s, location \o <<node.files[i].name>>, node.files[i]), i + 1)
           st == [icon_sizes |-> process.icon_sizes, icons |-> disk.icons, log |-> log, ok |-> TRUE]
           done(s) ==
               /\ process' = [process EXCEPT !.icon_sizes = s.icon_sizes, !.next = @ + 1]
               /\ disk' = [disk EXCEPT !.icons = s.icons]
               /\ log' = s.log
               /\ IF s.ok THEN UNCHANGED <<pc, ret>>
                  ELSE pc' = "returned" /\ ret' = [op |-> "generate", value |-> Err("io")]
       IN  done(CASE node.kind = "file" -> handle_file(st, location, node)
                  [] node.kind = "dir" -> read_dir(st, 1)
                  [] OTHER -> st)
    /\ UNCHANGED <<app, root, builder>>
    /\ UNCHANGED <<copydefs, additional, unpack, target, walker, yielded, asar, copied>>
    /\ UNCHANGED <<fsVars, deVars>>

\* sizes.sort_by with the comparison of the texts instead of the numbers
sort_sizes_as_text(sizes) ==
    LET key(n) == IF n < 10 THEN 11 * n ELSE 11 * (n \div 10) + (n % 10) + 1  \* "16" < "8"
        before(a, b) == key(a[1]) < key(b[1]) \/ (a[1] = b[1] /\ key(a[2]) < key(b[2]))
        RECURSIVE sorted(_)
        sorted(S) ==
            IF S = {} THEN <<>>
            ELSE LET first(m) == <<m>> \o sorted(S \ {m})
                 IN  first(CHOOSE m \in S : \A o \in S \ {m} : before(m, o))
    IN  sorted(sizes)

\* sizes.sort_by(|(w1, h1), (w2, h2)| w1.cmp(w2).then_with(|| h1.cmp(h2)))
sort_sizes(sizes) ==
    LET before(a, b) == a[1] < b[1] \/ (a[1] = b[1] /\ a[2] < b[2])
        RECURSIVE sorted(_)
        sorted(S) ==
            IF S = {} THEN <<>>
            ELSE LET first(m) == <<m>> \o sorted(S \ {m})
                 IN  first(CHOOSE m \in S : \A o \in S \ {m} : before(m, o))
    IN  sorted(sizes)

\* lines.join("\n")
RECURSIVE join_lines(_)
join_lines(lines) ==
    IF lines = <<>> THEN <<>>
    ELSE IF Len(lines) = 1 THEN lines[1]
    ELSE lines[1] \o <<"\n">> \o join_lines(Tail(lines))

\* The end of generate: sort the sizes and write size-list.
write_size_list ==
    /\ pc = "generate"
    /\ process.next > Len(process.locations)
    /\ LET write(sizes) ==
               disk' = [disk EXCEPT !.size_list =
                           Some(join_lines([i \in 1..Len(sizes) |->
                                               format_u64(sizes[i][1]) \o <<"x">> \o format_u64(sizes[i][2])]))]
       IN  write(sort_sizes(process.icon_sizes))
    /\ pc' = "returned"
    /\ ret' = [op |-> "generate", value |-> Ok(<<>>)]
    /\ UNCHANGED <<app, root, builder, process, log>>
    /\ UNCHANGED <<copydefs, additional, unpack, target, walker, yielded, asar, copied>>
    /\ UNCHANGED <<fsVars, deVars>>

(***************************************************************************)
(* SpecIcons: generate_icons for an App whose config may set linux.icon    *)
(* and icon, over the files found at the icon locations, into an icons     *)
(* directory that may hold the output of an earlier run.                   *)
(***************************************************************************)
InitIcons ==
    /\ root = <<"/", "p">>
    /\ \E linux \in {None, Some(<<"build", "icons">>)}, base \in {None, Some(<<"016x16.png">>)} :
           app = [DefaultApp EXCEPT !.config.linux.icon = linux, !.config.base.icon = base]
    /\ LET locations == [i \in 1..Len(icon_locations(app.config)) |->
                            join(root, icon_locations(app.config)[i])]
           png(name) == [kind |-> "file", name |-> name, magic |-> "png", entries |-> <<>>]
           file(magic, entries) == [kind |-> "file", magic |-> magic, entries |-> entries]
           none == [kind |-> "none"]
           dir == [kind |-> "dir", files |-> <<png("16x16.png"), png("icon.png"), png("8x16.png")>>]
           icns == file("icns", << <<16, 16>>, <<8, 8>> >>)
           ico == file("ico", << <<16, 8>>, <<8, 16>>, <<16, 8>> >>)
       IN  /\ process = [icon_sizes |-> {}, locations |-> locations, next |-> 1]
           /\ \E at_dir \in {dir, none},
                 at_icns \in {none, icns, file("other", <<>>), file("short", <<>>)},
                 at_ico \in {none, ico, icns},
                 at_png \in {file("png", <<>>), ico},
                 old \in {{}, {[name |-> png_name(<<32, 32>>), from |-> [path |-> <<"earlier run">>, entry |-> 1]]},
                          {[name |-> png_name(<<16, 16>>), from |-> [path |-> <<"earlier run">>, entry |-> 1]]}} :
                  disk = [ tree |-> ( <<"/", "p", "build", "icons">> :> at_dir
                                      @@ <<"/", "p", "build", "icon.icns">> :> at_icns
                                      @@ <<"/", "p", "build", "icon.ico">> :> at_ico
                                      @@ <<"/", "p", "016x16.png">> :> at_png ),
                           icons |-> old,
                           size_list |-> None ]
    /\ builder = NoCall
    /\ log = <<>>
    /\ ret = NoCall
    /\ pc = "generate"
    /\ copydefs = <<>> /\ additional = <<>> /\ unpack = <<>> /\ target = <<>>
    /\ walker = [state |-> "none"] /\ yielded = <<>> /\ asar = <<>> /\ copied = <<>>
    /\ IdleFs /\ IdleDe

NextIcons ==
    \/ handle_location
    \/ write_size_list

SpecIcons == InitIcons /\ [][NextIcons]_vars

\* C16: in one generate() the locations are handled in the order linux.icon,
\* mac.icon or build/icon.icns, win.icon or build/icon.ico, icon; for every
\* size that a handled input provides exactly one PNG has been written, by
\* the first input (location order, then directory order, then container
\* entry order) that provides it, and the file in the icons directory is
\* still that one.
C16_FirstSizeWins ==
    pc \in {"generate", "returned"} =>
        LET c == app.config
            opt(o) == IF o.some THEN <<root \o o.v>> ELSE <<>>
            locations == opt(c.linux.icon)
                         \o (IF c.mac.icon.some THEN opt(c.mac.icon) ELSE <<root \o <<"build", "icon.icns">>>>)
                         \o (IF c.win.icon.some THEN opt(c.win.icon) ELSE <<root \o <<"build", "icon.ico">>>>)
                         \o opt(c.base.icon)
            named(name) == PNG_SIZE_REGEX(NameChars(name))
            provided(file, name) ==
                CASE file.magic \in {"icns", "ico"} -> file.entries
                  [] file.magic = "png" /\ named(name).some ->
                         << <<parse_u64(named(name).v.w), parse_u64(named(name).v.h)>> >>
                  [] OTHER -> <<>>
            node(k) == disk.tree[locations[k]]
            inputs(k) == CASE node(k).kind = "file" -> <<[path |-> locations[k], file |-> node(k)]>>
                          [] node(k).kind = "dir" ->
                                 [j \in 1..Len(node(k).files) |->
                                     [path |-> locations[k] \o <<node(k).files[j].name>>,
                                      file |-> node(k).files[j]]]
                          [] OTHER -> <<>>
            sizes(f) == provided(f.file, f.path[Len(f.path)])
            sources == { s \in [k : 1..(process.next - 1), j : 1..3, i : 1..3] :
                             /\ s.j <= Len(inputs(s.k))
                             /\ s.i <= Len(sizes(inputs(s.k)[s.j])) }
            size(s) == sizes(inputs(s.k)[s.j])[s.i]
            from(s) == [path |-> inputs(s.k)[s.j].path, entry |-> s.i]
            before(s, t) == \/ s.k < t.k
                            \/ s.k = t.k /\ s.j < t.j
                            \/ s.k = t.k /\ s.j = t.j /\ s.i < t.i
            first(s) == \A t \in sources : size(t) = size(s) => ~before(t, s)
        IN  /\ process.locations = locations
            /\ \A a, b \in 1..Len(log) : log[a].size = log[b].size => a = b
            /\ \A a \in 1..Len(log) : \E s \in sources : first(s) /\ size(s) = log[a].size /\ from(s) = log[a].from
            /\ \A s \in sources :
                   first(s) =>
                       /\ \E a \in 1..Len(log) : log[a] = [size |-> size(s), from |-> from(s)]
                       /\ [name |-> png_name(size(s)), from |-> from(s)] \in disk.icons

\* C16 witness: generate has succeeded after 16x16 was provided by a PNG
\* of the linux.icon directory, by the ICNS container and by the PNG named
\* by `icon`; one 16x16.png was written, from the directory.
C16_Witness ==
    /\ pc = "returned" /\ ret.value.ok
    /\ Len(process.locations) = 4
    /\ disk.tree[<<"/", "p", "build", "icons">>].kind = "dir"
    /\ disk.tree[<<"/", "p", "build", "icon.icns">>].kind = "file"
    /\ disk.tree[<<"/", "p", "build", "icon.icns">>].magic = "icns"
    /\ disk.tree[<<"/", "p", "016x16.png">>].magic = "png"
    /\ \E a \in 1..Len(log) :
           log[a] = [size |-> <<16, 16>>, from |-> [path |-> <<"/", "p", "build", "icons", "16x16.png">>, entry |-> 1]]
    /\ Len(log) = 4

\* C17 as stated: after a successful generate() size-list holds one line
\* "WxH" per size written in this run, strictly ascending by width then
\* height as numbers, joined by newlines, and it has as many lines as there
\* are <W>x<H>.png files in the icons directory.
C17_SizeListCountsDirectory ==
    (pc = "returned" /\ ret.value.ok) =>
        LET written == {log[a].size : a \in 1..Len(log)}
            n == Cardinality(written)
            text == disk.size_list.v
            line(z) == format_u64(z[1]) \o <<"x">> \o format_u64(z[2])
            lines == Cardinality({i \in 1..Len(text) : text[i] = "\n"}) + (IF text = <<>> THEN 0 ELSE 1)
        IN  /\ \E s \in [1..n -> written] :
                /\ \A i \in 1..(n - 1) :
                       s[i][1] < s[i + 1][1] \/ (s[i][1] = s[i + 1][1] /\ s[i][2] < s[i + 1][2])
                /\ text = join_lines([i \in 1..n |-> line(s[i])])
            /\ lines = Cardinality({f \in disk.icons : PNG_SIZE_REGEX(f.name).some})

\* C17 amended: after a successful generate() size-list holds one line
\* "WxH" per size written in this run, strictly ascending by width then
\* height as numbers, joined by newlines; it has as many lines as PNGs were
\* written in this run, each of them in the icons directory.  A <W>x<H>.png
\* left there by an earlier run whose size was not written again is still
\* there and is not listed.
C17_SizeListOfThisRun ==
    (pc = "returned" /\ ret.value.ok) =>
        LET written == {log[a].size : a \in 1..Len(log)}
            n == Cardinality(written)
            text == disk.size_list.v
            line(z) == format_u64(z[1]) \o <<"x">> \o format_u64(z[2])
            lines == Cardinality({i \in 1..Len(text) : text[i] = "\n"}) + (IF text = <<>> THEN 0 ELSE 1)
            earlier == {f \in disk.icons : f.from.path = <<"earlier run">>}
        IN  /\ \E s \in [1..n -> written] :
                /\ \A i \in 1..(n - 1) :
                       s[i][1] < s[i + 1][1] \/ (s[i][1] = s[i + 1][1] /\ s[i][2] < s[i + 1][2])
                /\ text = join_lines([i \in 1..n |-> line(s[i])])
            /\ lines = Len(log)
            /\ lines = Cardinality(disk.icons \ earlier)
            /\ \A z \in written : \E f \in disk.icons \ earlier : f.name = png_name(z)
            /\ \A f \in earlier : \A z \in written : f.name # png_name(z)

\* C17 witness: generate has succeeded with 8x8, 8x16, 16x8 and 16x16
\* written, and a 32x32.png of an earlier run in the icons directory.
C17_Witness ==
    /\ pc = "returned" /\ ret.value.ok
    /\ {log[a].size : a \in 1..Len(log)} = {<<8, 8>>, <<8, 16>>, <<16, 8>>, <<16, 16>>}
    /\ \E f \in disk.icons : f.name = png_name(<<32, 32>>)
    /\ disk.size_list.some

(***************************************************************************)
(* desktop.rs, app.rs: the desktop entry, the patched manifest and the     *)
(* scripted config.  A text is a sequence of fragments: the characters of  *)
(* a name, and one fragment for each fixed part, key or opaque value.  A   *)
(* JSON object is a function from its keys to document values.             *)
(***************************************************************************)
\* DesktopGenerator::generate with the Comment entry added before the
\* user's desktop entries.
generate_comment_first(a, platform, order) ==
    LET exec_name == executable_name(a, platform)
        entry(key, val) == <<key, "=">> \o val \o <<"\n">>
        RECURSIVE join_with(_, _)
        join_with(parts, sep) ==
            IF parts = <<>> THEN <<>>
            ELSE IF Len(parts) = 1 THEN parts[1]
            ELSE parts[1] \o <<sep>> \o join_with(Tail(parts), sep)
        RECURSIVE flat(_)
        flat(lists) == IF lists = <<>> THEN <<>> ELSE lists[1] \o flat(Tail(lists))
        properties == desktop_properties(a.config, platform)
        user == IF properties.some
                THEN flat([i \in 1..Len(order) |-> entry(order[i], <<properties.v[order[i]]>>)])
                ELSE <<>>
        comment == IF description(a, platform).some
                   THEN entry("Comment", description(a, platform).v)
                   ELSE <<>>
        protocols == protocol_associations(a.config, platform)
        schemes == flat([i \in 1..Len(protocols) |->
                            [j \in 1..Len(protocols[i].schemes) |->
                                <<"x-scheme-handler/", protocols[i].schemes[j]>>]])
        assocs == SelectSeq(file_associations(a.config, platform), LAMBDA f : f.mime_type.some)
        mimes == schemes \o [i \in 1..Len(assocs) |-> <<assocs[i].mime_type.v>>]
        categories == desktop_categories(a.config, platform)
    IN  IF ~exec_name.ok THEN exec_name
        ELSE Ok(<<"[Desktop Entry]", "\n">>
                \o entry("Name", product_name(a, platform))
                \o entry("Exec", <<"/usr/bin/">> \o exec_name.v \o <<" %U">>)
                \o entry("Terminal", <<"false">>)
                \o entry("Type", <<"Application">>)
                \o entry("Icon", exec_name.v)
                \o comment
                \o user
                \o (IF mimes # <<>> THEN entry("MimeType", join_with(mimes, ";")) ELSE <<>>)
                \o (IF categories # <<>>
                    THEN entry("Categories", join_with([i \in 1..Len(categories) |-> <<categories[i]>>], ";"))
                    ELSE <<>>))

\* DesktopGenerator::generate; `order` is the order in which the user's
\* desktop map (a HashMap) hands out its keys.
generate(a, platform, order) ==
    LET exec_name == executable_name(a, platform)
        entry(key, val) == <<key, "=">> \o val \o <<"\n">>
        RECURSIVE join_with(_, _)
        join_with(parts, sep) ==
            IF parts = <<>> THEN <<>>
            ELSE IF Len(parts) = 1 THEN parts[1]
            ELSE parts[1] \o <<sep>> \o join_with(Tail(parts), sep)
        RECURSIVE flat(_)
        flat(lists) == IF lists = <<>> THEN <<>> ELSE lists[1] \o flat(Tail(lists))
        properties == desktop_properties(a.config, platform)
        user == IF properties.some
                THEN flat([i \in 1..Len(order) |-> entry(order[i], <<properties.v[order[i]]>>)])
                ELSE <<>>
        comment == IF description(a, platform).some
                   THEN entry("Comment", description(a, platform).v)
                   ELSE <<>>
        protocols == protocol_associations(a.config, platform)
        schemes == flat([i \in 1..Len(protocols) |->
                            [j \in 1..Len(protocols[i].schemes) |->
                                <<"x-scheme-handler/", protocols[i].schemes[j]>>]])
        assocs == SelectSeq(file_associations(a.config, platform), LAMBDA f : f.mime_type.some)
        mimes == schemes \o [i \in 1..Len(assocs) |-> <<assocs[i].mime_type.v>>]
        categories == desktop_categories(a.config, platform)
    IN  IF ~exec_name.ok THEN exec_name
        ELSE Ok(<<"[Desktop Entry]", "\n">>
                \o entry("Name", product_name(a, platform))
                \o entry("Exec", <<"/usr/bin/">> \o exec_name.v \o <<" %U">>)
                \o entry("Terminal", <<"false">>)
                \o entry("Type", <<"Application">>)
                \o entry("Icon", exec_name.v)
                \o user
                \o comment
                \o (IF mimes # <<>> THEN entry("MimeType", join_with(mimes, ";")) ELSE <<>>)
                \o (IF categories # <<>>
                    THEN entry("Categories", join_with([i \in 1..Len(categories) |-> <<categories[i]>>], ";"))
                    ELSE <<>>))

call_generate ==
    /\ ret = NoCall
    /\ \E P \in Platform :
           LET properties == desktop_properties(app.config, P)
               keys == IF properties.some THEN DOMAIN properties.v ELSE {}
               n == Cardinality(keys)
           IN  \E order \in {o \in [1..n -> keys] : \A i, j \in 1..n : o[i] = o[j] => i = j} :
                   ret' = Returned("generate", P, [order |-> order, text |-> generate(app, P, order)])
    /\ UNCHANGED <<app, fsVars, deVars, wkVars, ppVars>>

\* patched_package keeping the manifest's value of a key that
\* extra_metadata sets too.
patched_package_keep_original(a, platform) ==
    LET value == a.package.value
        effective == extra_metadata(a.config, platform)
        extra_metadata_object == IF effective.some /\ effective.v.t = "map" THEN effective.v.m ELSE <<>>
        package == [k \in DOMAIN value \cup DOMAIN extra_metadata_object |->
                       IF k \in DOMAIN value THEN value[k] ELSE extra_metadata_object[k]]
        keys == SelectSeq(<<"build", "name", "version", "x">>, LAMBDA k : k \in DOMAIN package)
    IN  Ok([i \in 1..Len(keys) |-> <<keys[i], package[keys[i]]>>])

\* App::patched_package: a clone of the manifest document with every
\* top-level key of an object-valued extra_metadata inserted, serialized as
\* the object's (key, value) pairs in key order.
patched_package(a, platform) ==
    LET value == a.package.value
        effective == extra_metadata(a.config, platform)
        extra_metadata_object == IF effective.some /\ effective.v.t = "map" THEN effective.v.m ELSE <<>>
        package == [k \in DOMAIN value \cup DOMAIN extra_metadata_object |->
                       IF k \in DOMAIN extra_metadata_object THEN extra_metadata_object[k] ELSE value[k]]
        keys == SelectSeq(<<"build", "name", "version", "x">>, LAMBDA k : k \in DOMAIN package)
    IN  Ok([i \in 1..Len(keys) |-> <<keys[i], package[keys[i]]>>])

call_patched_package ==
    /\ ret = NoCall
    /\ \E P \in Platform : ret' = Returned("patched_package", P, patched_package(app, P))
    /\ UNCHANGED <<app, fsVars, deVars, wkVars, ppVars>>

\* run_node_for_config parsing the child's stdout before looking at its
\* exit status.
run_node_for_config_parse_first(out) ==
    LET from_slice(stdout) ==
            CASE stdout = <<"{", "}">> -> Ok(DefaultConfig)
              [] stdout = <<>> -> Err([kind |-> "JsonError", at |-> "EOF while parsing a value"])
              [] stdout = <<"{">> -> Err([kind |-> "JsonError", at |-> "EOF while parsing an object"])
              [] OTHER -> Err([kind |-> "JsonError", at |-> "expected value"])
    IN  IF ~out.spawned THEN Err([kind |-> "IoError"])
        ELSE IF from_slice(out.stdout).ok THEN from_slice(out.stdout)
        ELSE IF out.status_code = Some(0) THEN from_slice(out.stdout)
        ELSE Err([kind |-> "NodeProcessError", status_code |-> out.status_code,
                  stderr |-> IF out.stderr.utf8 THEN Some(out.stderr.text) ELSE None])

\* App::run_node_for_config on what Command::output returned: the exit
\* status is looked at first, then serde_json::from_slice reads the stdout
\* (the texts of the model: an empty object, nothing, a cut-off object,
\* anything else).
run_node_for_config(out) ==
    LET from_slice(stdout) ==
            CASE stdout = <<"{", "}">> -> Ok(DefaultConfig)
              [] stdout = <<>> -> Err([kind |-> "JsonError", at |-> "EOF while parsing a value"])
              [] stdout = <<"{">> -> Err([kind |-> "JsonError", at |-> "EOF while parsing an object"])
              [] OTHER -> Err([kind |-> "JsonError", at |-> "expected value"])
    IN  IF ~out.spawned THEN Err([kind |-> "IoError"])
        ELSE IF out.status_code = Some(0) THEN from_slice(out.stdout)
        ELSE Err([kind |-> "NodeProcessError", status_code |-> out.status_code,
                  stderr |-> IF out.stderr.utf8 THEN Some(out.stderr.text) ELSE None])

call_run_node_for_config ==
    /\ parsed = NoCall
    /\ parsed' = run_node_for_config(doc)
    /\ UNCHANGED <<field, doc, cfgVars, fsVars, wkVars, ppVars>>

(***************************************************************************)
(* SpecOutput: one call of generate, patched_package or                    *)
(* run_node_for_config, for an App with desktop-entry settings, for an App *)
(* with extraMetadata, or for an outcome of the node child process.        *)
(***************************************************************************)
InitOutput ==
    LET exited(code, stdout) ==
            [spawned |-> TRUE, status_code |-> code, stdout |-> stdout,
             stderr |-> [utf8 |-> TRUE, text |-> "boom"]]
        desktop_apps ==
            { [DefaultApp EXCEPT !.package.manifest.name = name,
                                 !.config.base.common.description = comment,
                                 !.config.base.desktop = base_desktop,
                                 !.config.linux.desktop = linux_desktop,
                                 !.config.base.protocols = protocols,
                                 !.config.base.file_associations = assocs,
                                 !.config.linux.category = category] :
                  name \in {<<"a">>, <<"a", "!">>},
                  comment \in {None, Some(<<"b">>)},
                  base_desktop \in {None, Some([StartupWMClass |-> "a", Keywords |-> "k"])},
                  linux_desktop \in {None, Some([Name |-> "n"])},
                  protocols \in {<<>>, <<[schemes |-> <<"s1", "s2">>], [schemes |-> <<"s3">>]>>},
                  assocs \in {<<>>, <<[mime_type |-> None], [mime_type |-> Some("m/t")], [mime_type |-> Some("m/u")]>>},
                  category \in {<<>>, <<"Tools", "Dev">>} }
        manifest == [name |-> DStr(<<"a">>), version |-> DStr("1"), build |-> DMap([x |-> DStr("1")])]
        metadata_apps ==
            { [package |-> [manifest |-> DefaultPackage.manifest, value |-> value],
               config |-> [DefaultConfig EXCEPT !.base.extra_metadata = base_extra,
                                                !.linux.extra_metadata = linux_extra]] :
                  value \in {manifest},
                  base_extra \in {None, Some(DStr("x")),
                                  Some(DMap([version |-> DStr("2"), x |-> DStr("y")]))},
                  linux_extra \in {None, Some(DStr("x")), Some(DMap(<<>>)),
                                   Some(DMap([build |-> DMap([y |-> DStr("2")])]))} }
        outcomes ==
            {[spawned |-> FALSE]}
            \cup { [exited(code, stdout) EXCEPT !.stderr = stderr] :
                       code \in {Some(0), Some(1), None},
                       stdout \in {<<"{", "}">>, <<>>, <<"{">>, <<"undefined">>},
                       stderr \in {[utf8 |-> TRUE, text |-> "boom"], [utf8 |-> FALSE]} }
    IN  /\ \/ app \in {[package |-> [manifest |-> a.package.manifest,
                                        value |-> [manifest EXCEPT !.name = DStr(a.package.manifest.name)]],
                        config |-> a.config] : a \in desktop_apps}
              /\ doc = exited(Some(0), <<"{", "}">>)
           \/ app \in metadata_apps /\ doc = exited(Some(0), <<"{", "}">>)
           \/ app \in {a \in metadata_apps : ~a.config.base.extra_metadata.some
                                             /\ ~a.config.linux.extra_metadata.some}
              /\ doc \in outcomes
        /\ ret = NoCall
        /\ field = "none"
        /\ parsed = NoCall
        /\ IdleFs /\ IdleWk /\ IdlePp

NextOutput ==
    \/ call_generate
    \/ call_patched_package
    \/ call_run_node_for_config

SpecOutput == InitOutput /\ [][NextOutput]_vars

\* C18: the desktop entry is the line "[Desktop Entry]" followed by the
\* lines Name=<product name>, Exec=/usr/bin/<executable name> %U,
\* Terminal=false, Type=Application, Icon=<executable name>, one Key=Value
\* line per entry of the user's desktop map, Comment=<description> if there
\* is one, MimeType= the x-scheme-handler/<scheme> of every scheme of every
\* protocol association in order followed by the file associations'
\* mimeTypes that are set, joined by ';', if there is any, and Categories=
\* the categories joined by ';' if there is any; every line ends with a
\* newline.
C18_DesktopEntryLines ==
    (ret.op = "generate" /\ ret.value.text.ok) =>
        LET text == ret.value.text.v
            P == ret.platform
            ends == {i \in 1..Len(text) : text[i] = "\n"}
            end(k) == CHOOSE i \in ends : Cardinality({j \in ends : j <= i}) = k
            line(k) == SubSeq(text, IF k = 1 THEN 1 ELSE end(k - 1) + 1, end(k) - 1)
            exec == executable_name(app, P).v
            user == IF app.config[SectionOf(P)].desktop.some
                    THEN app.config[SectionOf(P)].desktop
                    ELSE app.config.base.desktop
            keys == IF user.some THEN DOMAIN user.v ELSE {}
            u == Cardinality(keys)
            comment == description(app, P)
            c == IF comment.some THEN 1 ELSE 0
            protocols == protocol_associations(app.config, P)
            assocs == file_associations(app.config, P)
            RECURSIVE schemes_from(_)
            schemes_from(i) ==
                IF i > Len(protocols) THEN <<>>
                ELSE [j \in 1..Len(protocols[i].schemes) |-> <<"x-scheme-handler/", protocols[i].schemes[j]>>]
                     \o schemes_from(i + 1)
            RECURSIVE types_from(_)
            types_from(i) ==
                IF i > Len(assocs) THEN <<>>
                ELSE (IF assocs[i].mime_type.some THEN <<<<assocs[i].mime_type.v>>>> ELSE <<>>)
                     \o types_from(i + 1)
            RECURSIVE semicolons(_, _)
            semicolons(parts, i) ==
                IF i > Len(parts) THEN <<>>
                ELSE (IF i = 1 THEN <<>> ELSE <<";">>) \o parts[i] \o semicolons(parts, i + 1)
            mimes == schemes_from(1) \o types_from(1)
            m == IF mimes # <<>> THEN 1 ELSE 0
            categories == desktop_categories(app.config, P)
            g == IF categories # <<>> THEN 1 ELSE 0
        IN  /\ text[Len(text)] = "\n"
            /\ Cardinality(ends) = 6 + u + c + m + g
            /\ line(1) = <<"[Desktop Entry]">>
            /\ line(2) = <<"Name", "=">> \o product_name(app, P)
            /\ line(3) = <<"Exec", "=", "/usr/bin/">> \o exec \o <<" %U">>
            /\ line(4) = <<"Terminal", "=", "false">>
            /\ line(5) = <<"Type", "=", "Application">>
            /\ line(6) = <<"Icon", "=">> \o exec
            /\ {line(6 + i) : i \in 1..u} = {<<k, "=", user.v[k]>> : k \in keys}
            /\ comment.some => line(6 + u + 1) = <<"Comment", "=">> \o comment.v
            /\ mimes # <<>> => line(6 + u + c + 1) = <<"MimeType", "=">> \o semicolons(mimes, 1)
            /\ categories # <<>> =>
                   line(6 + u + c + m + 1)
                       = <<"Categories", "=">> \o semicolons([i \in 1..Len(categories) |-> <<categories[i]>>], 1)

\* C18 witness: a desktop entry with two user entries (Keywords handed out
\* first), a Comment, a MimeType of three schemes and two types, and
\* Categories.
C18_Witness ==
    /\ ret.op = "generate"
    /\ ret.value.text.ok
    /\ ret.platform = "Linux"
    /\ ret.value.order = <<"Keywords", "StartupWMClass">>
    /\ description(app, "Linux").some
    /\ Len(protocol_associations(app.config, "Linux")) = 2
    /\ Len(file_associations(app.config, "Linux")) = 3
    /\ Len(desktop_categories(app.config, "Linux")) = 2

\* C19: for a scripted config the child's exit status is looked at before
\* its stdout: every exit other than code 0 gives NodeProcessError with
\* the exit code and the captured stderr, whatever the stdout holds; exit
\* code 0 gives the parsed config, or the JSON error when the stdout is
\* empty or not valid JSON, never NodeProcessError.
C19_ExitStatusFirst ==
    (parsed # NoCall /\ doc.spawned) =>
        IF doc.status_code # Some(0)
        THEN parsed = Err([kind |-> "NodeProcessError", status_code |-> doc.status_code,
                           stderr |-> IF doc.stderr.utf8 THEN Some(doc.stderr.text) ELSE None])
        ELSE IF doc.stdout = <<"{", "}">>
        THEN parsed = Ok(DefaultConfig)
        ELSE ~parsed.ok /\ parsed.err.kind = "JsonError"

\* C19 witness: the child was killed by a signal after printing a valid
\* config, and run_node_for_config returned NodeProcessError.
C19_Witness ==
    /\ parsed # NoCall
    /\ doc.spawned
    /\ doc.status_code = None
    /\ doc.stdout = <<"{", "}">>
    /\ ~parsed.ok
    /\ parsed.err.kind = "NodeProcessError"

\* C20: patched_package(P) is the manifest object with the top-level keys
\* of the effective extra_metadata (the platform section's if present, else
\* the base one) overwritten or added as a whole and every other key
\* unchanged; without extra_metadata it equals the manifest; the App is
\* not changed by the call.
C20_ShallowMerge ==
    /\ [](ret.op = "patched_package" =>
            /\ ret.value.ok
            /\ LET pairs == ret.value.v
                   original == app.package.value
                   section == app.config[SectionOf(ret.platform)].extra_metadata
                   effective == IF section.some THEN section ELSE app.config.base.extra_metadata
                   extra == IF effective.some /\ effective.v.t = "map" THEN DOMAIN effective.v.m ELSE {}
               IN  /\ \A i, j \in 1..Len(pairs) : pairs[i][1] = pairs[j][1] => i = j
                   /\ {pairs[i][1] : i \in 1..Len(pairs)} = DOMAIN original \cup extra
                   /\ \A i \in 1..Len(pairs) :
                          pairs[i][2] = IF pairs[i][1] \in extra
                                        THEN effective.v.m[pairs[i][1]]
                                        ELSE original[pairs[i][1]])
    /\ [][app' = app]_vars

\* C20 witness: the linux extra_metadata replaced the manifest's `build`
\* object as a whole, the base extra_metadata being ignored.
C20_Witness ==
    /\ ret.op = "patched_package"
    /\ ret.platform = "Linux"
    /\ app.config.base.extra_metadata.some
    /\ \E i \in 1..Len(ret.value.v) :
           ret.value.v[i] = <<"build", DMap([y |-> DStr("2")])>>
    /\ \E i \in 1..Len(ret.value.v) : ret.value.v[i] = <<"version", DStr("1")>>

(***************************************************************************)
(* The Walker's passes over the Sets.                                      *)
(***************************************************************************)
\* The Sets of the composed list, in their declared order.
DeclaredSets ==
    LET sets == SelectSeq(copydefs \o additional, LAMBDA c : c.kind = "Set")
    IN  [i \in 1..Len(sets) |-> sets[i].set]

\* The regular files of the project below root/from, as paths below root.
FilesUnder(from) ==
    {Tree[i].path : i \in {k \in 1..Len(Tree) :
        Tree[k].is_file /\ IsPrefix(join(root, Named(from)), root \o Tree[k].path)}}

\* The pattern list a Set is walked with.
WalkedWith(set) ==
    IF \A i \in 1..Len(set.filter) : set.filter[i].neg
    THEN <<Glob(FALSE, <<Seg("**", {}), Seg("*", {})>>)>> \o set.filter
    ELSE set.filter

\* The step has ended without a panic.
WalkDone == pc \in {"pack_asar_done", "pack_extra_done"}

\* C21: a Set none of whose filters is positive (all negative, or none at
\* all) is walked with "**/*" put in front of its filters, and a Set with a
\* positive filter with its filters unchanged; once the walk is over, the
\* files emitted for a Set without a positive filter are the regular files
\* under root/from except those its negative patterns remove.
C21_ImplicitMatchAll ==
    /\ (pc \in {"pack_asar", "pack_extra_files", "pack_extra_resources"} /\ walker.current_set.some)
          => walker.globs = WalkedWith(walker.current_set.v)
    /\ WalkDone =>
          \A k \in 1..Len(DeclaredSets) :
              LET set == DeclaredSets[k]
                  removed(path) ==
                      \E i \in 1..Len(set.filter) :
                          /\ GlobMatch(set.filter[i].segs, path)
                          /\ \A j \in (i + 1)..Len(set.filter) : ~GlobMatch(set.filter[j].segs, path)
              IN  (\A i \in 1..Len(set.filter) : set.filter[i].neg) =>
                      {yielded[i].source : i \in {j \in 1..Len(yielded) : yielded[j].set = Some(set)}}
                          = {root \o path : path \in {f \in FilesUnder(set.from) : ~removed(f)}}

\* C21 witness: the walk is over and a Set whose only filter is negative
\* ("!**/*.md", from "./d") has emitted d/b.js and not d/c.md.
C21_Witness ==
    /\ WalkDone
    /\ \E i \in 1..Len(yielded) :
        /\ yielded[i].set.some
        /\ yielded[i].set.v.filter # <<>>
        /\ \A k \in 1..Len(yielded[i].set.v.filter) : yielded[i].set.v.filter[k].neg
        /\ yielded[i].source = root \o <<"d", "b.js">>
        /\ \A j \in 1..Len(yielded) :
              yielded[j].set = yielded[i].set => yielded[j].source # root \o <<"d", "c.md">>

\* C22: a Set with no filter and no `to` is left out before walking: the
\* Walker emits no triple for it.
C22_DegenerateSetSkipped ==
    \A i \in 1..Len(yielded) :
        yielded[i].set.some =>
            ~(yielded[i].set.v.filter = <<>> /\ ~yielded[i].set.v.to.some)

\* The list a packing step hands to Walker::new.
Composed ==
    IF pc \in {"pack_asar", "pack_asar_done", "pack_asar_failed"}
    THEN <<NODE_MODULES_GLOB>> \o copydefs \o additional \o FORCED_FILTERS
    ELSE copydefs \o additional

\* One pass: the regular files below `start` that `globs` accepts, in the
\* order of the directory walk, each tagged with the Set of the pass.
Pass(start, globs, tag) ==
    LET hit == SelectSeq(Tree, LAMBDA e :
                   /\ e.is_file
                   /\ IsPrefix(start, root \o e.path)
                   /\ evaluate_candidate(globs, e.path))
    IN  [i \in 1..Len(hit) |-> [source |-> root \o hit[i].path, set |-> tag]]

\* The passes of one Walker: the global globs over root, then each Set, in
\* declared order, over root/from with its own pattern list.
RECURSIVE SetPasses(_)
SetPasses(sets) ==
    IF sets = <<>> THEN <<>>
    ELSE Pass(join(root, Named(Head(sets).set.from)), WalkedWith(Head(sets).set), Some(Head(sets).set))
         \o SetPasses(Tail(sets))

Passes ==
    LET simple == SelectSeq(Composed, LAMBDA c : c.kind = "Simple")
    IN  Pass(root, [i \in 1..Len(simple) |-> simple[i].glob], None)
        \o SetPasses(SelectSeq(Composed, LAMBDA c : c.kind = "Set"))

\* C23: the triples of one Walker come in passes: first those of the
\* global globs, then those of each Set, one Set at a time in declared
\* order wherever the Sets stand among the globs of the list, each Set
\* matched by its own pattern list over its own walk of root/from; with no
\* Simple glob in the list there is no global pass; each call yields at
\* most one further triple, and after next() has returned None the next
\* call returns None again.
C23_PassOrder ==
    /\ [](pc \in {"pack_asar", "pack_asar_done", "pack_asar_failed",
                  "pack_extra_files", "pack_extra_resources", "pack_extra_done"} =>
            LET got == [i \in 1..Len(yielded) |-> [source |-> yielded[i].source, set |-> yielded[i].set]]
            IN  /\ IsPrefix(got, Passes)
                /\ WalkDone => got = Passes
                /\ \A i, j \in 1..Len(yielded) :
                       (i < j /\ yielded[i].set.some) => yielded[j].set.some
                /\ (pc \in {"pack_extra_files", "pack_extra_resources"}
                      /\ \A k \in 1..Len(Composed) : Composed[k].kind = "Set")
                      => walker.done_with_globs /\ \A i \in 1..Len(yielded) : yielded[i].set.some
                /\ (WalkDone /\ Composed # <<>>) =>
                       /\ ~Walker_next(walker).item.some
                       /\ ~Walker_next(walker).panic
                       /\ ~Walker_next(Walker_next(walker).w).item.some)
    /\ [][/\ Len(yielded') \in {Len(yielded), Len(yielded) + 1}
          /\ SubSeq(yielded', 1, Len(yielded)) = yielded
          /\ Len(yielded') = Len(yielded) =>
                 pc' \in {"pack_asar", "pack_extra_files", "pack_extra_resources", "pack_asar_done",
                          "pack_extra_done", "panicked"}]_vars

\* C23 witness: the walk is over; a Set stood before a glob in the list,
\* and the glob's files were yielded first, then the files of two Sets.
C23_Witness ==
    /\ WalkDone
    /\ Len(copydefs) = 2 /\ Len(additional) = 1
    /\ copydefs[1].kind = "Set" /\ copydefs[2].kind = "Set"
    /\ copydefs[1] # copydefs[2]
    /\ \E i, j, k \in 1..Len(yielded) :
        /\ i < j /\ j < k
        /\ ~yielded[i].set.some
        /\ yielded[j].set = Some(copydefs[1].set)
        /\ yielded[k].set = Some(copydefs[2].set)

\* C26: the filters of a Set with `from` (and the "**/*" put in front of
\* them) are matched against the file's path relative to `from`: once the
\* walk is over, the files emitted for a Set are the regular files under
\* root/from whose path below `from` its pattern list accepts.
C26_FiltersRelativeToFrom ==
    WalkDone =>
        \A k \in 1..Len(DeclaredSets) :
            LET set == DeclaredSets[k]
                from == Named(set.from)
                below == {SubSeq(f, Len(from) + 1, Len(f)) : f \in FilesUnder(set.from)}
            IN  ~IsAbsolute(from) =>
                    {yielded[i].source : i \in {j \in 1..Len(yielded) : yielded[j].set = Some(set)}}
                        = {root \o from \o rel :
                              rel \in {b \in below : evaluate_candidate(WalkedWith(set), b)}}

\* C27: with the output directory under root (the default root/tasje_out),
\* the walk of pack_asar never yields a file inside it, resources/app.asar
\* that pack_asar has just created included, so that a second proceed()
\* archives the same entries as the first.
C27_OutputNotArchived ==
    pc \in {"pack_asar", "pack_asar_done", "pack_asar_failed"} =>
        /\ \A i \in 1..Len(yielded) : ~IsPrefix(base_output_dir(root), yielded[i].source)
        /\ \A i \in 1..Len(asar) : ~IsPrefix(base_output_dir(root), asar[i].source)

\* C28: no input of the Walker makes it panic: Walker::next does not panic
\* while it switches Sets or computes a relative path, an absolute `from`
\* included; every failure is an Err returned to the caller.
C28_NoPanic == pc # "panicked"

\* C29: pack_asar creates resources/app.asar, truncating what an earlier
\* run left in it, before the Walker yields its first file, and the file
\* stays empty throughout the walk: the archive is written into it only by
\* finalize, after the last file.  When reading a source or copying an
\* unpacked file fails, pack_asar returns the error and what is left is the
\* empty app.asar together with the unpacked copies made before the
\* failing file.
C29_ArchiveWrittenAtFinalize ==
    /\ [](/\ pc = "pack_asar" => disk.asar_file = Some(<<>>)
          /\ pc = "pack_asar_done" => disk.asar_file = Some(asar)
          /\ pc = "pack_asar_failed" =>
                LET before == SubSeq(yielded, 1, Len(yielded) - 1)
                    marked == SelectSeq(before, LAMBDA t : t.unpack)
                IN  /\ disk.asar_file = Some(<<>>)
                    /\ yielded # <<>>
                    /\ Len(copied) = Len(marked)
                    /\ \A j \in 1..Len(marked) :
                           copied[j] = join(target \o <<"app.asar.unpacked">>, marked[j].dest))
    /\ [][/\ (pc = "start" /\ pc' = "pack_asar") => yielded' = <<>> /\ disk'.asar_file = Some(<<>>)
          /\ (pc = "pack_asar" /\ pc' = "pack_asar_failed") => disk' = disk /\ Len(copied') = Len(copied)
          /\ (pc = "pack_asar" /\ pc' = "pack_asar_done") => yielded' = yielded /\ asar' = asar]_vars

\* C29 witness: pack_asar has failed on its third file or later, after it
\* made an unpacked copy; app.asar is empty.
C29_Witness ==
    /\ pc = "pack_asar_failed"
    /\ Len(yielded) >= 3
    /\ Len(copied) >= 1
    /\ disk.asar_file = Some(<<>>)

\* C25: an icon location that does not exist, and a file whose first four
\* bytes are none of the three magics (a file shorter than four bytes
\* included), are passed over: generate() does not fail because of them.
C25_UnusableInputsIgnored ==
    pc \in {"generate", "returned"} =>
        \A k \in 1..(process.next - 1) :
            LET location == process.locations[k]
                node == IF location \in DOMAIN disk.tree THEN disk.tree[location] ELSE [kind |-> "none"]
                unusable == \/ node.kind = "none"
                            \/ node.kind = "file" /\ node.magic \in {"other", "short"}
            IN  (unusable /\ k = process.next - 1)
                    => ~(pc = "returned" /\ ret.op = "generate" /\ ~ret.value.ok)

\* C30: for every root, absolute or relative, and every relative path p,
\* builder.base_output_dir(p) followed by build() gives a process whose
\* base_output_dir is root/p: the root prefix is applied exactly once.
C30_RootPrefixOnce ==
    (pc = "proceed" /\ ret.op = "base_output_dir" /\ ~IsAbsolute(ret.path))
        => process.base_output_dir = root \o ret.path

(***************************************************************************)
(* utils.rs: fill_variable_template.  A template is the sequence of its    *)
(* characters.  A call either returns the expanded string or panics.       *)
(***************************************************************************)
MaxPieces == 2

\* str::trim for the characters a variable name can hold.
RECURSIVE trim(_)
trim(s) ==
    IF s # <<>> /\ Head(s) = " " THEN trim(Tail(s))
    ELSE IF s # <<>> /\ s[Len(s)] = " " THEN trim(SubSeq(s, 1, Len(s) - 1))
    ELSE s

\* TEMPLATE_REGEX \$\{([a-zA-Z_. ]+)\} tried at the start of s: the index
\* of the closing brace of the match, or 0 when it does not match there.
TEMPLATE_REGEX(s) ==
    LET class == Lower \cup Upper \cup {"_", ".", " "}
        run == {k \in 3..Len(s) : \A i \in 3..k : s[i] \in class}
        last == IF run = {} THEN 0 ELSE CHOOSE k \in run : \A j \in run : j <= k
    IN  IF Len(s) >= 4 /\ s[1] = "$" /\ s[2] = "{" /\ last # 0 /\ last < Len(s) /\ s[last + 1] = "}"
        THEN last + 1
        ELSE 0

\* host_node_arch().to_string(): fixed by the target the binary was built for.
host_node_arch == { <<"x", "6", "4">>, <<"i", "a", "3", "2">>, <<"a", "r", "m", "6", "4">>, <<"a", "r", "m">> }

\* fill_variable_template(template), for the host architecture `host` and
\* the environment variables `env` of the process.  replace_all calls the
\* closure for the matches from left to right; a panic in it ends the call.
RECURSIVE fill_variable_template(_, _, _)
fill_variable_template(template, host, env) ==
    LET returned(v) == [kind |-> "returned", value |-> v]
        before(v, rest) ==
            IF rest.kind = "returned" THEN returned(v \o rest.value) ELSE rest
        variable(m) == trim(SubSeq(template, 3, m - 1))
        after(m) == fill_variable_template(SubSeq(template, m + 1, Len(template)), host, env)
        replace(m, v) ==
            IF v = <<"a", "r", "c", "h">> THEN before(host, after(m))
            ELSE IF v = <<"p", "l", "a", "t", "f", "o", "r", "m">>
            THEN before(<<"l", "i", "n", "u", "x">>, after(m))
            ELSE IF IsPrefix(<<"e", "n", "v", ".">>, v)
            THEN LET envar == SubSeq(v, 5, Len(v))
                 IN  IF envar \in DOMAIN env THEN before(env[envar], after(m))
                     ELSE [kind |-> "panic", message |-> "getting env variable contents"]
            ELSE [kind |-> "panic", message |-> "not yet implemented: unknown template variable"]
        at(m) ==
            IF m = 0
            THEN before(<<Head(template)>>, fill_variable_template(Tail(template), host, env))
            ELSE replace(m, variable(m))
    IN  IF template = <<>> THEN returned(<<>>) ELSE at(TEMPLATE_REGEX(template))

\* Pieces of glob strings: plain text, the known variables, a variable
\* name with blanks around it, an environment variable that is set and one
\* that is not, an unknown variable, and a name the regex does not match.
PiecePool ==
    { <<"a">>, <<"$">>,
      <<"$", "{", "a", "r", "c", "h", "}">>,
      <<"$", "{", " ", "p", "l", "a", "t", "f", "o", "r", "m", " ", "}">>,
      <<"$", "{", "e", "n", "v", ".", "H", "}">>,
      <<"$", "{", "e", "n", "v", ".", "N", "}">>,
      <<"$", "{", "v", "e", "r", "}">>,
      <<"$", "{", "o", "s", "2", "}">> }

RECURSIVE Templates(_)
Templates(n) ==
    IF n = 0 THEN {<<>>}
    ELSE Templates(n - 1) \cup {t \o p : t \in Templates(n - 1), p \in PiecePool}

InitTemplate ==
    /\ fname \in Templates(MaxPieces)
    /\ \E host \in host_node_arch, env \in {<<>>, (<<"H">> :> <<"/", "h">>)} :
           process = [host_node_arch |-> host, env |-> env]
    /\ fresult = NoCall
    /\ builder = NoCall /\ disk = {} /\ log = <<>>
    /\ IdleCfg /\ IdleDe /\ IdleWk

\* One glob string passed through fill_variable_template.
call_fill_variable_template ==
    /\ fresult = NoCall
    /\ process # NoCall
    /\ fresult' = [op |-> "fill_variable_template"]
                  @@ fill_variable_template(fname, process.host_node_arch, process.env)
    /\ UNCHANGED <<fname, cfgVars, deVars, wkVars, ppVars>>

SpecTemplate == InitTemplate /\ [][call_fill_variable_template]_vars

\* The template holds "${name}" where name, without the blanks around it,
\* is not arch, not platform and does not start with "env.".
ReferencesUnknownVariable(s) ==
    \E i, j \in 1..Len(s) :
        /\ i + 2 < j
        /\ s[i] = "$" /\ s[i + 1] = "{" /\ s[j] = "}"
        /\ \A k \in (i + 2)..(j - 1) : s[k] \notin {"$", "{", "}"}
        /\ LET name == trim(SubSeq(s, i + 2, j - 1))
           IN  /\ name # <<>>
               /\ name \notin {<<"a", "r", "c", "h">>, <<"p", "l", "a", "t", "f", "o", "r", "m">>}
               /\ ~IsPrefix(<<"e", "n", "v", ".">>, name)

\* C24: a glob that references a template variable other than arch,
\* platform or env.NAME ends in a recoverable error: the expansion neither
\* panics nor returns a string, with the variable left in it.
C24_UnknownVariableIsError ==
    (fresult.op = "fill_variable_template" /\ ReferencesUnknownVariable(fname))
        => fresult.kind = "error"

====
